---- MODULE Spec2Model ----
(***************************************************************************)
(* Model of the LSB video steganography services.                          *)
(*                                                                         *)
(* SteganographyService (app/services/steganography_service.py):           *)
(*   data_to_bits, bits_to_bytes, apply_error_correction,                  *)
(*   decode_error_correction, embed_in_frame, extract_from_frame,          *)
(*   embed_message, extract_message.                                       *)
(*                                                                         *)
(* A frame is a record [h, w, px]: px is the numpy array flattened in C    *)
(* order (row, column, channel), 1-indexed here, every sample in 0..255.   *)
(* A byte string is a sequence of 0..255, a bit list a sequence of 0..1.   *)
(***************************************************************************)
EXTENDS Integers, Sequences, FiniteSets, TLC

\* ------------------------------------------------------------------
\* Bounds of the model
\* ------------------------------------------------------------------
MaxFrames == 3
MaxPayloadLen == 3
MaxBytes == 2
MaxChars == 2
MaxVideoFrames == 3
MaxIndices == 3
MaxTotalFrames == 250
MaxJobs == 2
MaxCalls == 2
MaxTaskFrames == 2

\* ------------------------------------------------------------------
\* Program constants
\* ------------------------------------------------------------------
RS_ECC_SYMBOLS == 10
LENGTH_HEADER_BITS == 32
MAX_DATA_LENGTH == 100 * 1024 * 1024

\* ------------------------------------------------------------------
\* Integer helpers (Python int operators on non-negative values)
\* ------------------------------------------------------------------
\* A sequence given element by element, as the tuple of its elements.
Array(f) == f \o << >>

Min(a, b) == IF a <= b THEN a ELSE b
Max(a, b) == IF a >= b THEN a ELSE b

Pow2(n) == 2 ^ n

\* (value >> i) & 1
BitAt(value, i) == (value \div Pow2(i)) % 2

\* a ^ b on bytes
Xor8(a, b) ==
    ((a + b) % 2)
    + 2 * (((a \div 2) + (b \div 2)) % 2)
    + 4 * (((a \div 4) + (b \div 4)) % 2)
    + 8 * (((a \div 8) + (b \div 8)) % 2)
    + 16 * (((a \div 16) + (b \div 16)) % 2)
    + 32 * (((a \div 32) + (b \div 32)) % 2)
    + 64 * (((a \div 64) + (b \div 64)) % 2)
    + 128 * (((a \div 128) + (b \div 128)) % 2)

\* ------------------------------------------------------------------
\* data_to_bits / bits_to_bytes
\* ------------------------------------------------------------------
\* LSB-first variant of data_to_bits (mutation of the shift order).
data_to_bits_lsb_first(data) ==
    Array([k \in 1..(8 * Len(data)) |->
        BitAt(data[((k - 1) \div 8) + 1], (k - 1) % 8)])

\* for byte in data: for i in range(7, -1, -1): yield (byte >> i) & 1
data_to_bits(data) ==
    Array([k \in 1..(8 * Len(data)) |->
        BitAt(data[((k - 1) \div 8) + 1], 7 - ((k - 1) % 8))])

\* while len(bits) % 8 != 0: bits.append(0)
PadToByte(bits) ==
    Array([k \in 1..(8 * ((Len(bits) + 7) \div 8)) |->
        IF k <= Len(bits) THEN bits[k] ELSE 0])

\* Mutation of the byte assembly: the first bit lands in the lowest place.
ByteOfBitsLsbFirst(bits, i) ==
    bits[i + 1] + 2 * bits[i + 2] + 4 * bits[i + 3] + 8 * bits[i + 4]
    + 16 * bits[i + 5] + 32 * bits[i + 6] + 64 * bits[i + 7] + 128 * bits[i + 8]

\* byte = 0; for j in range(8): byte = (byte << 1) | bits[i + j]
ByteOfBits(bits, i) ==
    128 * bits[i + 1] + 64 * bits[i + 2] + 32 * bits[i + 3] + 16 * bits[i + 4]
    + 8 * bits[i + 5] + 4 * bits[i + 6] + 2 * bits[i + 7] + bits[i + 8]

\* for i in range(0, len(bits), 8): result.append(byte)
BytesOfPadded(padded) ==
    Array([n \in 1..(Len(padded) \div 8) |-> ByteOfBits(padded, 8 * (n - 1))])

bits_to_bytes(bits) == BytesOfPadded(PadToByte(bits))

\* data_length.to_bytes(4, byteorder='big')
to_bytes_4_big(n) ==
    << (n \div 16777216) % 256, (n \div 65536) % 256, (n \div 256) % 256, n % 256 >>

\* Largest integer of the model; int.from_bytes of four bytes can exceed it.
IntMax == 2147483647

RECURSIVE int_from_bytes_big(_)
\* int.from_bytes(b, byteorder='big').  A value above IntMax is recorded as
\* IntMax: every such value is above MAX_DATA_LENGTH.
int_from_bytes_big(b) ==
    IF Len(b) = 0 THEN 0
    ELSE LET high == int_from_bytes_big(SubSeq(b, 1, Len(b) - 1))
         IN  IF high >= 8388608 THEN IntMax ELSE 256 * high + b[Len(b)]

\* ------------------------------------------------------------------
\* Reed-Solomon codec: reedsolo.RSCodec(10) over GF(2^8), primitive
\* polynomial 0x11d, generator 2, first consecutive root 0.
\* ------------------------------------------------------------------
\* gf_exp as init_tables() fills it (x = 1; repeat: gf_exp[i] = x; x = 2 * x
\* reduced by 0x11d): GfExpTable[i + 1] = alpha^i for i in 0..254
GfExpTable ==
    <<
    1, 2, 4, 8, 16, 32, 64, 128, 29, 58, 116, 232, 205, 135, 19, 38,
    76, 152, 45, 90, 180, 117, 234, 201, 143, 3, 6, 12, 24, 48, 96, 192,
    157, 39, 78, 156, 37, 74, 148, 53, 106, 212, 181, 119, 238, 193, 159, 35,
    70, 140, 5, 10, 20, 40, 80, 160, 93, 186, 105, 210, 185, 111, 222, 161,
    95, 190, 97, 194, 153, 47, 94, 188, 101, 202, 137, 15, 30, 60, 120, 240,
    253, 231, 211, 187, 107, 214, 177, 127, 254, 225, 223, 163, 91, 182, 113, 226,
    217, 175, 67, 134, 17, 34, 68, 136, 13, 26, 52, 104, 208, 189, 103, 206,
    129, 31, 62, 124, 248, 237, 199, 147, 59, 118, 236, 197, 151, 51, 102, 204,
    133, 23, 46, 92, 184, 109, 218, 169, 79, 158, 33, 66, 132, 21, 42, 84,
    168, 77, 154, 41, 82, 164, 85, 170, 73, 146, 57, 114, 228, 213, 183, 115,
    230, 209, 191, 99, 198, 145, 63, 126, 252, 229, 215, 179, 123, 246, 241, 255,
    227, 219, 171, 75, 150, 49, 98, 196, 149, 55, 110, 220, 165, 87, 174, 65,
    130, 25, 50, 100, 200, 141, 7, 14, 28, 56, 112, 224, 221, 167, 83, 166,
    81, 162, 89, 178, 121, 242, 249, 239, 195, 155, 43, 86, 172, 69, 138, 9,
    18, 36, 72, 144, 61, 122, 244, 245, 247, 243, 251, 235, 203, 139, 11, 22,
    44, 88, 176, 125, 250, 233, 207, 131, 27, 54, 108, 216, 173, 71, 142
    >>

\* gf_log as init_tables() fills it: GfLogTable[v] = i with alpha^i = v, v in 1..255
GfLogTable ==
    <<
    0, 1, 25, 2, 50, 26, 198, 3, 223, 51, 238, 27, 104, 199, 75, 4,
    100, 224, 14, 52, 141, 239, 129, 28, 193, 105, 248, 200, 8, 76, 113, 5,
    138, 101, 47, 225, 36, 15, 33, 53, 147, 142, 218, 240, 18, 130, 69, 29,
    181, 194, 125, 106, 39, 249, 185, 201, 154, 9, 120, 77, 228, 114, 166, 6,
    191, 139, 98, 102, 221, 48, 253, 226, 152, 37, 179, 16, 145, 34, 136, 54,
    208, 148, 206, 143, 150, 219, 189, 241, 210, 19, 92, 131, 56, 70, 64, 30,
    66, 182, 163, 195, 72, 126, 110, 107, 58, 40, 84, 250, 133, 186, 61, 202,
    94, 155, 159, 10, 21, 121, 43, 78, 212, 229, 172, 115, 243, 167, 87, 7,
    112, 192, 247, 140, 128, 99, 13, 103, 74, 222, 237, 49, 197, 254, 24, 227,
    165, 153, 119, 38, 184, 180, 124, 17, 68, 146, 217, 35, 32, 137, 46, 55,
    63, 209, 91, 149, 188, 207, 205, 144, 135, 151, 178, 220, 252, 190, 97, 242,
    86, 211, 171, 20, 42, 93, 158, 132, 60, 57, 83, 71, 109, 65, 162, 31,
    45, 67, 216, 183, 123, 164, 118, 196, 23, 73, 236, 127, 12, 111, 246, 108,
    161, 59, 82, 41, 157, 85, 170, 251, 96, 134, 177, 187, 204, 62, 90, 203,
    89, 95, 176, 156, 169, 160, 81, 11, 245, 22, 235, 122, 117, 44, 215, 79,
    174, 213, 233, 230, 231, 173, 232, 116, 214, 244, 234, 168, 80, 88, 175
    >>

GfExp(i) == GfExpTable[(i % 255) + 1]

\* gf_mul(x, y): gf_exp[(gf_log[x] + gf_log[y]) % field_charac]
gf_mul(x, y) ==
    IF x = 0 \/ y = 0 THEN 0
    ELSE GfExp(GfLogTable[x] + GfLogTable[y])

\* rs_generator_poly(10): prod_{i < 10} (x - alpha^i), highest degree first
RsGeneratorPoly == << 1, 216, 194, 159, 111, 199, 94, 95, 113, 157, 193 >>

\* One step of the synthetic division of msg * x^nsym by the generator:
\* rem is the running remainder (nsym bytes), b the next message byte.
RsDivStepCoef(rem, coef) ==
    Array([k \in 1..RS_ECC_SYMBOLS |->
        Xor8(IF k < RS_ECC_SYMBOLS THEN rem[k + 1] ELSE 0,
             gf_mul(RsGeneratorPoly[k + 1], coef))])

RsDivStep(rem, b) == RsDivStepCoef(rem, Xor8(b, rem[1]))

RECURSIVE RsRemainderRange(_, _, _, _)
\* The division steps for msg[from..to] in order, from the remainder rem
\* (the steps from..mid first, then mid+1..to; a remainder always has
\* RS_ECC_SYMBOLS bytes).
RsRemainderRange(msg, from, to, rem) ==
    IF from > to THEN rem
    ELSE IF from = to THEN RsDivStep(rem, msg[from])
    ELSE LET first == RsRemainderRange(msg, from, (from + to) \div 2, rem)
         IN  IF Len(first) = RS_ECC_SYMBOLS
             THEN RsRemainderRange(msg, ((from + to) \div 2) + 1, to, first)
             ELSE first

RsRemainder(msg, k, rem) == RsRemainderRange(msg, k, Len(msg), rem)

\* rs_encode_msg(chunk, nsym): the chunk followed by its nsym parity bytes.
RsEncodeChunk(chunk) ==
    chunk \o RsRemainder(chunk, 1, Array([k \in 1..RS_ECC_SYMBOLS |-> 0]))

RsChunkSize == 255 - RS_ECC_SYMBOLS

RECURSIVE RsEncodeFrom(_, _)
RsEncodeFrom(data, start) ==
    IF start > Len(data) THEN << >>
    ELSE RsEncodeChunk(SubSeq(data, start, Min(Len(data), start + RsChunkSize - 1)))
         \o RsEncodeFrom(data, start + RsChunkSize)

\* rs = reedsolo.RSCodec(cls.RS_ECC_SYMBOLS); return bytes(rs.encode(data))
apply_error_correction(data) == RsEncodeFrom(data, 1)

RECURSIVE RsPolyEval(_, _, _, _, _)
\* Horner evaluation at x of the coefficients cw[from..to], carried on from
\* acc (the coefficients from..mid first, then mid+1..to).
RsPolyEval(cw, from, to, acc, x) ==
    IF from > to THEN acc
    ELSE IF from = to THEN Xor8(gf_mul(acc, x), cw[from])
    ELSE LET first == RsPolyEval(cw, from, (from + to) \div 2, acc, x)
         IN  IF first >= 0
             THEN RsPolyEval(cw, ((from + to) \div 2) + 1, to, first, x)
             ELSE first

\* rs_calc_syndromes: the codeword evaluated at alpha^0 .. alpha^(nsym-1)
RsSyndromes(cw) ==
    Array([j \in 1..RS_ECC_SYMBOLS |-> RsPolyEval(cw, 1, Len(cw), 0, GfExp(j - 1))])

RsSyndromesZero(cw) == RsSyndromes(cw) = Array([j \in 1..RS_ECC_SYMBOLS |-> 0])

\* msg[:-nsym]
RsStripParity(cw) ==
    IF Len(cw) <= RS_ECC_SYMBOLS THEN << >>
    ELSE SubSeq(cw, 1, Len(cw) - RS_ECC_SYMBOLS)

\* ------------------------------------------------------------------
\* Frames, regions and plans
\* ------------------------------------------------------------------
\* frame.size
FrameSize(frame) == Len(frame.px)

\* frame[y, x, c]  (0-based y, x, c)
SampleIndex(frame, y, x, c) == (y * frame.w + x) * 3 + c + 1

\* An optional region list: regions_by_frame.get(idx) or the regions argument.
NoRegions == [none |-> TRUE, list |-> << >>]
SomeRegions(l) == [none |-> FALSE, list |-> l]

\* Python truth value of the regions argument (None and [] are falsy).
Truthy(regions) == ~regions.none /\ Len(regions.list) > 0

\* regions = None; if regions_by_frame is not None:
\*     regions = regions_by_frame.get(frame_idx)
RegionsFor(regions_by_frame, frame_idx) ==
    IF regions_by_frame.none THEN NoRegions
    ELSE IF frame_idx \in DOMAIN regions_by_frame.map
         THEN SomeRegions(regions_by_frame.map[frame_idx])
         ELSE NoRegions

\* Mutation of the channel count: luma counted like rgb.
ChannelsAlwaysThree(channel_mode) == 3

\* channels = 1 if channel_mode == 'luma' else 3
Channels(channel_mode) == IF channel_mode = "luma" THEN 1 ELSE 3

\* ------------------------------------------------------------------
\* cv2.cvtColor(frame, COLOR_BGR2YCrCb) and back, 8-bit fixed point
\* ------------------------------------------------------------------
Saturate8(v) == IF v < 0 THEN 0 ELSE IF v > 255 THEN 255 ELSE v

Descale14(v) == (v + 8192) \div 16384

LumaOf(b, g, r) == Saturate8(Descale14(1868 * b + 9617 * g + 4899 * r))

\* One pixel <<b, g, r>> to <<Y, Cr, Cb>>
BGR2YCrCbPixel(p) ==
    LET Y == LumaOf(p[1], p[2], p[3])
    IN  << Y,
           Saturate8(Descale14((p[3] - Y) * 11682 + 128 * 16384)),
           Saturate8(Descale14((p[1] - Y) * 9241 + 128 * 16384)) >>

\* One pixel <<Y, Cr, Cb>> to <<b, g, r>>
YCrCb2BGRPixel(q) ==
    << Saturate8(q[1] + Descale14((q[3] - 128) * 29049)),
       Saturate8(q[1] + Descale14((q[3] - 128) * (-5636) + (q[2] - 128) * (-11698))),
       Saturate8(q[1] + Descale14((q[2] - 128) * 22987)) >>

Pixel(px, n) == << px[3 * n - 2], px[3 * n - 1], px[3 * n] >>

\* ycrcb = cv2.cvtColor(frame, cv2.COLOR_BGR2YCrCb), flattened like px
BGR2YCrCb(px) ==
    Array([k \in 1..Len(px) |-> BGR2YCrCbPixel(Pixel(px, ((k - 1) \div 3) + 1))[((k - 1) % 3) + 1]])

YCrCb2BGR(ycc) ==
    Array([k \in 1..Len(ycc) |-> YCrCb2BGRPixel(Pixel(ycc, ((k - 1) \div 3) + 1))[((k - 1) % 3) + 1]])

\* plane = ycrcb[:, :, 0]
LumaPlane(ycc) == Array([n \in 1..(Len(ycc) \div 3) |-> ycc[3 * n - 2]])

\* ycrcb[:, :, 0] = plane
WithLumaPlane(ycc, plane) ==
    Array([k \in 1..Len(ycc) |-> IF (k - 1) % 3 = 0 THEN plane[((k - 1) \div 3) + 1] ELSE ycc[k]])

\* ------------------------------------------------------------------
\* frame_capacity_bits (closure of embed_message)
\* ------------------------------------------------------------------
\* Capacity of one region r of a height x width frame, before * channels.
RegionCapacityArea(r, height, width) ==
    LET x0 == Max(0, Min(width, r.x))
        y0 == Max(0, Min(height, r.y))
        x1 == Max(0, Min(width, x0 + Max(0, r.width)))
        y1 == Max(0, Min(height, y0 + Max(0, r.height)))
    IN  IF x1 <= x0 \/ y1 <= y0 THEN 0 ELSE (x1 - x0) * (y1 - y0)

RECURSIVE SumRegionCapacity(_, _, _, _)
SumRegionCapacity(list, k, height, width) ==
    IF k > Len(list) THEN 0
    ELSE RegionCapacityArea(list[k], height, width)
         + SumRegionCapacity(list, k + 1, height, width)

frame_capacity_bits(frame, regions, channel_mode) ==
    IF ~Truthy(regions)
    THEN frame.h * frame.w * Channels(channel_mode)
    ELSE SumRegionCapacity(regions.list, 1, frame.h, frame.w) * Channels(channel_mode)

\* ------------------------------------------------------------------
\* embed_in_frame
\* ------------------------------------------------------------------
\* A slot <<y, x, c>> is one sample of the array written or read: channel c
\* of pixel (row y, column x); in luma mode the Y plane, c = 0.
SlotIndex(slot, width, nch) == (slot[1] * width + slot[2]) * nch + slot[3] + 1

\* Mutation of set_bit: the mask always clears bit 0.
set_bit_mask_lsb(value, bit, bit_position) ==
    (value - BitAt(value, 0)) + bit * Pow2(bit_position)

\* mask = ~(1 << bit_position); return (value & mask) | (bit << bit_position)
set_bit(value, bit, bit_position) ==
    (value - BitAt(value, bit_position) * Pow2(bit_position)) + bit * Pow2(bit_position)

\* The slots the loops of embed_in_frame visit inside one region, in order:
\* for y in range(y0, y1): for x in range(x0, x1): [for c in range(3)]
EmbedRegionSlots(region, height, width, nch) ==
    IF region.width <= 0 \/ region.height <= 0 THEN << >>
    ELSE LET y1 == Min(region.y + region.height, height)
             x1 == Min(region.x + region.width, width)
             y0 == Max(0, region.y)
             x0 == Max(0, region.x)
             nrows == Max(0, y1 - y0)
             ncols == Max(0, x1 - x0)
         IN  Array([k \in 1..(nrows * ncols * nch) |->
                << y0 + ((k - 1) \div (ncols * nch)),
                   x0 + (((k - 1) \div nch) % ncols),
                   (k - 1) % nch >>])

RECURSIVE EmbedRegionListSlots(_, _, _, _, _)
EmbedRegionListSlots(list, k, height, width, nch) ==
    IF k > Len(list) THEN << >>
    ELSE EmbedRegionSlots(list[k], height, width, nch)
         \o EmbedRegionListSlots(list, k + 1, height, width, nch)

\* flat = work_frame.flatten() (or plane.flatten()): for i in range(len(flat))
FlatSlots(height, width, nch) ==
    Array([i \in 1..(height * width * nch) |->
        << (i - 1) \div (width * nch), ((i - 1) \div nch) % width, (i - 1) % nch >>])

\* Every slot embed_in_frame would write given enough bits.
EmbedSlots(frame, regions, channel_mode) ==
    IF Truthy(regions)
    THEN EmbedRegionListSlots(regions.list, 1, frame.h, frame.w, Channels(channel_mode))
    ELSE FlatSlots(frame.h, frame.w, Channels(channel_mode))

RECURSIVE WriteSlots(_, _, _, _, _, _, _, _)
\* arr[slot k] = set_bit(int(arr[slot k]), bit k), for k = from..to in order
\* (the writes from..mid first, then mid+1..to)
WriteSlots(arr, slots, bits, from, to, width, nch, bit_position) ==
    IF from > to THEN arr
    ELSE IF from = to
    THEN [arr EXCEPT ![SlotIndex(slots[from], width, nch)] =
            set_bit(@, bits[from], bit_position)]
    ELSE LET mid == (from + to) \div 2
             first == WriteSlots(arr, slots, bits, from, mid, width, nch, bit_position)
         IN  IF Len(first) = Len(arr)
             THEN WriteSlots(first, slots, bits, mid + 1, to, width, nch, bit_position)
             ELSE first

\* Returns the modified frame, the count of bits embedded and (ghost) the
\* slots written, in order.
embed_in_frame(frame, data_bits, bit_position, regions, channel_mode) ==
    LET slots == EmbedSlots(frame, regions, channel_mode)
        n == Min(Len(data_bits), Len(slots))
    IN  IF channel_mode = "luma"
        THEN LET ycrcb == BGR2YCrCb(frame.px)
                 plane == WriteSlots(LumaPlane(ycrcb), slots, data_bits, 1, n,
                                     frame.w, 1, bit_position)
             IN  [frame |-> [frame EXCEPT !.px = YCrCb2BGR(WithLumaPlane(ycrcb, plane))],
                  bits_embedded |-> n,
                  slots |-> SubSeq(slots, 1, n)]
        ELSE [frame |-> [frame EXCEPT !.px =
                            WriteSlots(frame.px, slots, data_bits, 1, n,
                                       frame.w, 3, bit_position)],
              bits_embedded |-> n,
              slots |-> SubSeq(slots, 1, n)]

\* ------------------------------------------------------------------
\* extract_from_frame
\* ------------------------------------------------------------------
\* return (value >> bit_position) & 1
get_bit(value, bit_position) == BitAt(value, bit_position)

\* Mutation of the region scan of extract_from_frame: columns outermost.
ExtractRegionSlotsColumnMajor(region, height, width, nch) ==
    IF region.width <= 0 \/ region.height <= 0 THEN << >>
    ELSE LET y1 == Min(region.y + region.height, height)
             x1 == Min(region.x + region.width, width)
             y0 == Max(0, region.y)
             x0 == Max(0, region.x)
             nrows == Max(0, y1 - y0)
             ncols == Max(0, x1 - x0)
         IN  Array([k \in 1..(nrows * ncols * nch) |->
                << y0 + (((k - 1) \div nch) % nrows),
                   x0 + ((k - 1) \div (nrows * nch)),
                   (k - 1) % nch >>])

\* The slots the loops of extract_from_frame visit inside one region:
\* for y in range(y0, y1): for x in range(x0, x1): [for c in range(3)]
ExtractRegionSlots(region, height, width, nch) ==
    IF region.width <= 0 \/ region.height <= 0 THEN << >>
    ELSE LET y1 == Min(region.y + region.height, height)
             x1 == Min(region.x + region.width, width)
             y0 == Max(0, region.y)
             x0 == Max(0, region.x)
             nrows == Max(0, y1 - y0)
             ncols == Max(0, x1 - x0)
         IN  Array([k \in 1..(nrows * ncols * nch) |->
                << y0 + ((k - 1) \div (ncols * nch)),
                   x0 + (((k - 1) \div nch) % ncols),
                   (k - 1) % nch >>])

RECURSIVE ExtractRegionListSlots(_, _, _, _, _)
ExtractRegionListSlots(list, k, height, width, nch) ==
    IF k > Len(list) THEN << >>
    ELSE ExtractRegionSlots(list[k], height, width, nch)
         \o ExtractRegionListSlots(list, k + 1, height, width, nch)

\* The slots extract_from_frame reads: the region scan cut at num_bits
\* (len(extracted_bits) >= num_bits returns), or the first
\* min(num_bits, len(flat)) samples of the flattened array.
ExtractSlots(frame, num_bits, regions, channel_mode) ==
    LET all == IF Truthy(regions)
               THEN ExtractRegionListSlots(regions.list, 1, frame.h, frame.w,
                                           Channels(channel_mode))
               ELSE FlatSlots(frame.h, frame.w, Channels(channel_mode))
    IN  SubSeq(all, 1, Min(num_bits, Len(all)))

\* extracted_bits.append(get_bit(int(arr[slot k]))) for every slot, in order
ReadSlots(arr, slots, width, nch, bit_position) ==
    Array([k \in 1..Len(slots) |->
        get_bit(arr[SlotIndex(slots[k], width, nch)], bit_position)])

\* Returns the extracted bits and (ghost) the slots read, in order.
extract_from_frame(frame, num_bits, bit_position, regions, channel_mode) ==
    LET slots == ExtractSlots(frame, num_bits, regions, channel_mode)
        nch == Channels(channel_mode)
        arr == IF channel_mode = "luma" THEN LumaPlane(BGR2YCrCb(frame.px)) ELSE frame.px
    IN  [bits |-> ReadSlots(arr, slots, frame.w, nch, bit_position),
         slots |-> slots]

\* ------------------------------------------------------------------
\* decode_error_correction
\* ------------------------------------------------------------------
RECURSIVE RsDecodeFrom(_, _)
\* rs.decode(data): every 255-byte chunk must check; a chunk whose
\* syndromes are all zero is returned without its parity bytes, any other
\* chunk raises ReedSolomonError here (no errata search is modelled).
RsDecodeFrom(data, start) ==
    IF start > Len(data) THEN [ok |-> TRUE, data |-> << >>]
    ELSE LET chunk == SubSeq(data, start, Min(Len(data), start + 254))
             rest == RsDecodeFrom(data, start + 255)
         IN  IF RsSyndromesZero(chunk) /\ rest.ok
             THEN [ok |-> TRUE, data |-> RsStripParity(chunk) \o rest.data]
             ELSE [ok |-> FALSE, data |-> << >>]

\* try: decoded = rs.decode(data); return bytes(decoded[0])
\* except reedsolo.ReedSolomonError: raise ValueError
decode_error_correction(data) == RsDecodeFrom(data, 1)

\* ------------------------------------------------------------------
\* Inputs of the model
\* ------------------------------------------------------------------
\* (height, width) of the frames of a video
Shapes == { << 5, 8 >>, << 5, 9 >> }

PayloadSeeds == { 0, 165 }

\* The payload bytes handed to embed_message (never empty: it is the
\* envelope CryptoService.encrypt returns).
Payload(seed, n) == Array([i \in 1..n |-> (seed * (1 + 91 * (i - 1))) % 256])

Payloads == { Payload(seed, n) : seed \in PayloadSeeds, n \in 1..MaxPayloadLen }

\* Pixel data of the cover frames.
CoverPx(kind, idx, height, width) ==
    Array([k \in 1..(height * width * 3) |->
        IF kind = "zero" THEN 0 ELSE (37 * (k - 1) + 11 * idx + 200) % 256])

CoverKinds == { "ramp" }

\* Frame indices of a list of n frames, in ascending or descending order.
FrameIndices(n, order) ==
    Array([k \in 1..n |-> IF order = "asc" THEN k ELSE n + 1 - k])

Orders(n) == IF n >= 2 THEN { "asc", "desc" } ELSE { "asc" }

CoverFrames(n, shape, order, kind) ==
    Array([k \in 1..n |->
        [idx |-> FrameIndices(n, order)[k],
         frame |-> [h |-> shape[1], w |-> shape[2],
                    px |-> CoverPx(kind, FrameIndices(n, order)[k], shape[1], shape[2])]]])

\* 32 header bits of a value v < 2^31, most significant first
HeaderBit(v, k) == IF k = 1 THEN 0 ELSE BitAt(v, LENGTH_HEADER_BITS - k)

\* Pixel data whose first 32 samples (rgb) or first 32 pixels (luma, gray
\* pixels so that Y is the gray value) carry the header value v in bit
\* planes 0 and 1; every other sample is 0.
StegoPx(v, channel_mode, height, width) ==
    Array([k \in 1..(height * width * 3) |->
        LET n == IF channel_mode = "luma" THEN ((k - 1) \div 3) + 1 ELSE k
        IN  IF n <= LENGTH_HEADER_BITS THEN 3 * HeaderBit(v, n) ELSE 0])

HeaderValues == { 0, 1, 1 + RS_ECC_SYMBOLS, MAX_DATA_LENGTH, MAX_DATA_LENGTH + 1 }

\* Frames of a video that carries header value v at the start of its first frame.
StegoFrames(n, shape, order, v, channel_mode) ==
    Array([k \in 1..n |->
        [idx |-> FrameIndices(n, order)[k],
         frame |-> [h |-> shape[1], w |-> shape[2],
                    px |-> IF k = 1
                           THEN StegoPx(v, channel_mode, shape[1], shape[2])
                           ELSE [j \in 1..(shape[1] * shape[2] * 3) |-> 0]]]])

Region(x, y, width, height) == [x |-> x, y |-> y, width |-> width, height |-> height]

\* Region lists given for a frame, each with the frames it is given for:
\* "all" the frames of the list, or the "first" listed frame only.
RegionChoices ==
    { [keys |-> "all", list |-> << >>],
      [keys |-> "all", list |-> << Region(0, 0, 4, 4) >>],
      [keys |-> "all", list |-> << Region(4, 0, 4, 5), Region(0, 0, 4, 5) >>],
      [keys |-> "all", list |-> << Region(0, 0, 4, 5), Region(6, 3, 10, 10) >>],
      [keys |-> "first", list |-> << Region(0, 0, 0, 3), Region(9, 0, 2, 2),
                                     Region(1, 1, 2, -1) >>],
      [keys |-> "all", list |-> << Region(-2, -1, 6, 4) >>],
      [keys |-> "first", list |-> << Region(0, 0, 20, 20), Region(0, 0, 20, 20) >>] }

\* regions_by_frame: None, or a map from frame indices to a region list.
RegionPlans(idxs) ==
    { [none |-> TRUE, map |-> << >>] }
    \cup { [none |-> FALSE,
            map |-> [i \in {idxs[k] : k \in 1..(IF c.keys = "first"
                                                 THEN Min(1, Len(idxs))
                                                 ELSE Len(idxs))} |-> c.list]] :
             c \in RegionChoices }

BitPositions == { 0, 1 }
ChannelModes == { "rgb", "luma" }

\* ------------------------------------------------------------------
\* State
\* ------------------------------------------------------------------
VARIABLES
    frames,             \* embed_message: frames, list of [idx, frame]
    encrypted_data,     \* embed_message: encrypted_data
    regions_by_frame,   \* the plan: regions_by_frame
    bit_position,       \* the plan: bit_position
    channel_mode,       \* the plan: channel_mode
    pcE,                \* embed_message: "idle", "loop", "done", "error"
    protected_data,     \* embed_message: protected_data
    all_bits,           \* embed_message: all_bits
    total_capacity,     \* embed_message: total_capacity
    current_bit,        \* embed_message: current_bit
    iE,                 \* embed_message: position of the frame loop (1-based)
    modified_frames,    \* embed_message: modified_frames, in insertion order
    embed_result,       \* embed_message: the returned dict, or the error raised
    writes,             \* ghost: samples written, <<frame_idx, y, x, c>>, in order
    offers,             \* ghost: per loop iteration, what the frame was given
    pcX,                \* extract_message: "idle", "loop", "finish", "done", "error"
    xsource,            \* where the frames given to extract_message come from
    all_extracted_bits, \* extract_message: all_extracted_bits
    header_extracted,   \* extract_message: header_extracted
    data_length,        \* extract_message: data_length
    iX,                 \* extract_message: position of the frame loop (1-based)
    extract_result,     \* extract_message: the bytes returned, or the error raised
    reads,              \* ghost: samples read, <<frame_idx, y, x, c>>, in order
    header_parses,      \* ghost: times the length header was parsed
    ecc_calls           \* ghost: calls of decode_error_correction

planVars == << regions_by_frame, bit_position, channel_mode >>
embedVars == << frames, encrypted_data, pcE, protected_data, all_bits, total_capacity,
                current_bit, iE, modified_frames, embed_result, writes, offers >>
extractVars == << pcX, xsource, all_extracted_bits, header_extracted,
                  data_length, iX, extract_result, reads, header_parses, ecc_calls >>
stegoVars == << planVars, embedVars, extractVars >>

\* State of the calls of data_to_bits / bits_to_bytes taken on their own.
VARIABLES
    pcB,                \* "idle", "start", "bits", "bytes"
    b_data,             \* the byte string given to data_to_bits
    b_arg,              \* ghost: the bit list as it was given to bits_to_bytes
    b_bits,             \* the bit list (bits_to_bytes pads it in place)
    b_bytes             \* the bytes bits_to_bytes returned

bitsVars == << pcB, b_data, b_arg, b_bits, b_bytes >>

VARIABLES
    pcC,                 \* "idle", "start", "encrypted", "decrypted"
    plaintext,           \* encrypt: plaintext, a str as its code points
    password,            \* encrypt: password, a str as its code points
    encryption_strength, \* encrypt / decrypt: encryption_strength
    cipher_mode,         \* encrypt / decrypt: cipher_mode
    enc_result,          \* what encrypt returned or raised
    dec_password,        \* decrypt: password
    dec_data,            \* decrypt: encrypted_data
    dec_result           \* what decrypt returned or raised

cryptoVars == << pcC, plaintext, password, encryption_strength, cipher_mode,
                 enc_result, dec_password, dec_data, dec_result >>

VARIABLES
    pcV,                 \* "idle", "start", "done"
    source_video,        \* the frames of the file at video_path, in order
    frame_indices,       \* read_frames: frame_indices as given
    overlay,             \* write_video: frames, the dict of modified frames
    read_result,         \* what read_frames returned
    written              \* the frames write_video gave to out.write, in order

videoVars == << pcV, source_video, frame_indices, overlay, read_result, written >>

VARIABLES
    pcK,                 \* "idle", "start", "reported", "embedded"
    cap_video,           \* the frames of the file at video_path
    cap_frames,          \* calculate_capacity: frames, the index list
    cap_report,          \* what calculate_capacity returned
    cap_message,         \* the message then embedded, a str as its code points
    cap_mode,            \* the cipher mode it is encrypted under
    cap_outcome          \* what became of the message up to the capacity check

capVars == << pcK, cap_video, cap_frames, cap_report, cap_message, cap_mode,
              cap_outcome >>

VARIABLES
    pcA,                 \* "idle", "start", "analyzed", "selected"
    a_shape,             \* analyze_frame_for_embedding: (height, width) of the frame
    a_scores,            \* the score of each 16x16 block, in scan order
    a_result,            \* what analyze_frame_for_embedding returned
    s_total_frames,      \* select_best_frames: total_frames of the video
    s_sampled            \* the frame positions it read and scored, in order

aiVars == << pcA, a_shape, a_scores, a_result, s_total_frames, s_sampled >>

VARIABLES
    pcS,                 \* "idle", or "ready" once the BatchService exists
    batches,             \* self.batches: << >>, or << batch >> once create_batch has run
    start_pc,            \* position of each start_batch call
    futures,             \* futures[c][j]: the future start_batch call c has for job j
    loaded,              \* the counter value a start_batch call has read for its += 1
    start_result,        \* what each start_batch call returned
    cancel_result,       \* what the last cancel_batch call returned
    cancel_true          \* a cancel_batch call has returned True

batchVars == << pcS, batches, start_pc, futures, loaded, start_result, cancel_result, cancel_true >>

VARIABLES
    pcT,                 \* position of the embed_message_task run
    ai_options,          \* the ai_options of the request
    embed_params,        \* what _build_ai_embed_params returned
    extract_params,      \* what run_extract_pipeline derived
    task_plan,           \* the counts that decide the loops of the run
    task_step,           \* the iteration of the loop the run is in
    progress_log         \* the progress values passed to update_state, in order

tasksVars == << pcT, ai_options, embed_params, extract_params, task_plan, task_step, progress_log >>

auxVars == << bitsVars, cryptoVars, videoVars, capVars, aiVars, batchVars, tasksVars >>

\* The variables outside each part of the model.
outsideBits == << stegoVars, cryptoVars, videoVars, capVars, aiVars, batchVars, tasksVars >>
outsideCrypto == << stegoVars, bitsVars, videoVars, capVars, aiVars, batchVars, tasksVars >>
outsideVideo == << stegoVars, bitsVars, cryptoVars, capVars, aiVars, batchVars, tasksVars >>
outsideCap == << stegoVars, bitsVars, cryptoVars, videoVars, aiVars, batchVars, tasksVars >>
outsideAi == << stegoVars, bitsVars, cryptoVars, videoVars, capVars, batchVars, tasksVars >>
outsideBatch == << stegoVars, bitsVars, cryptoVars, videoVars, capVars, aiVars, tasksVars >>
outsideTasks == << stegoVars, bitsVars, cryptoVars, videoVars, capVars, aiVars, batchVars >>
vars == << stegoVars, auxVars >>

NoResult == [kind |-> "none"]

\* (ghost) the slots of one frame as entries <<frame_idx, y, x, c>> of a log
SlotsOfFrame(frame_idx, slots) ==
    Array([k \in 1..Len(slots) |-> << frame_idx >> \o slots[k]])

\* No embed_message or extract_message call has been made.
StegoIdle ==
    /\ frames = << >>
    /\ encrypted_data = << >>
    /\ regions_by_frame = [none |-> TRUE, map |-> << >>]
    /\ bit_position = 0
    /\ channel_mode = "rgb"
    /\ pcE = "idle"
    /\ protected_data = << >>
    /\ all_bits = << >>
    /\ total_capacity = 0
    /\ current_bit = 0
    /\ iE = 1
    /\ modified_frames = << >>
    /\ embed_result = NoResult
    /\ writes = << >>
    /\ offers = << >>
    /\ pcX = "idle"
    /\ xsource = "none"
    /\ all_extracted_bits = << >>
    /\ header_extracted = FALSE
    /\ data_length = 0
    /\ iX = 1
    /\ extract_result = NoResult
    /\ reads = << >>
    /\ header_parses = 0
    /\ ecc_calls = 0

\* No call of the bit conversions on their own has been made.
BitsIdle ==
    /\ pcB = "idle"
    /\ b_data = << >>
    /\ b_arg = << >>
    /\ b_bits = << >>
    /\ b_bytes = << >>

\* No encrypt or decrypt call has been made.
CryptoIdle ==
    /\ pcC = "idle"
    /\ plaintext = << >>
    /\ password = << >>
    /\ encryption_strength = "AES-256"
    /\ cipher_mode = "GCM"
    /\ enc_result = NoResult
    /\ dec_password = << >>
    /\ dec_data = << >>
    /\ dec_result = NoResult

\* No read_frames or write_video call has been made.
VideoIdle ==
    /\ pcV = "idle"
    /\ source_video = << >>
    /\ frame_indices = << >>
    /\ overlay = << >>
    /\ read_result = << >>
    /\ written = << >>

\* No calculate_capacity call has been made.
CapIdle ==
    /\ pcK = "idle"
    /\ cap_video = << >>
    /\ cap_frames = << >>
    /\ cap_report = NoResult
    /\ cap_message = << >>
    /\ cap_mode = "GCM"
    /\ cap_outcome = NoResult

\* No AIService call has been made.
AiIdle ==
    /\ pcA = "idle"
    /\ a_shape = << 0, 0 >>
    /\ a_scores = << >>
    /\ a_result = NoResult
    /\ s_total_frames = 0
    /\ s_sampled = << >>

\* No BatchService has been constructed.
BatchIdle ==
    /\ pcS = "idle"
    /\ batches = << >>
    /\ start_pc = << >>
    /\ futures = << >>
    /\ loaded = << >>
    /\ start_result = << >>
    /\ cancel_result = NoResult
    /\ cancel_true = FALSE

\* No task has been started.
TasksIdle ==
    /\ pcT = "idle"
    /\ ai_options = NoResult
    /\ embed_params = NoResult
    /\ extract_params = NoResult
    /\ task_plan = NoResult
    /\ task_step = 0
    /\ progress_log = << >>

AuxIdle == BitsIdle /\ CryptoIdle /\ VideoIdle /\ CapIdle /\ AiIdle /\ BatchIdle /\ TasksIdle

IdleOutsideBits == StegoIdle /\ CryptoIdle /\ VideoIdle /\ CapIdle /\ AiIdle /\ BatchIdle /\ TasksIdle
IdleOutsideCrypto == StegoIdle /\ BitsIdle /\ VideoIdle /\ CapIdle /\ AiIdle /\ BatchIdle /\ TasksIdle
IdleOutsideVideo == StegoIdle /\ BitsIdle /\ CryptoIdle /\ CapIdle /\ AiIdle /\ BatchIdle /\ TasksIdle
IdleOutsideCap == StegoIdle /\ BitsIdle /\ CryptoIdle /\ VideoIdle /\ AiIdle /\ BatchIdle /\ TasksIdle
IdleOutsideAi == StegoIdle /\ BitsIdle /\ CryptoIdle /\ VideoIdle /\ CapIdle /\ BatchIdle /\ TasksIdle
IdleOutsideBatch == StegoIdle /\ BitsIdle /\ CryptoIdle /\ VideoIdle /\ CapIdle /\ AiIdle /\ TasksIdle
IdleOutsideTasks == StegoIdle /\ BitsIdle /\ CryptoIdle /\ VideoIdle /\ CapIdle /\ AiIdle /\ BatchIdle

Init == StegoIdle /\ AuxIdle

\* ------------------------------------------------------------------
\* embed_message
\* ------------------------------------------------------------------
RECURSIVE SumCapacity(_, _, _, _)
\* for frame_idx, frame in frames: total_capacity += frame_capacity_bits(...)
SumCapacity(fl, k, rbf, mode) ==
    IF k > Len(fl) THEN 0
    ELSE frame_capacity_bits(fl[k].frame, RegionsFor(rbf, fl[k].idx), mode)
         + SumCapacity(fl, k + 1, rbf, mode)

\* Mutation of the length header: the length of encrypted_data.
LengthHeaderOfPayload(data, protected) == to_bytes_4_big(Len(data))

\* data_length = len(protected_data); data_length.to_bytes(4, byteorder='big')
LengthHeader(data, protected) == to_bytes_4_big(Len(protected))

\* Mutation of the capacity check: fails already at equality.
CapacityExceededAtEqual(nbits, capacity) == nbits >= capacity

\* if len(all_bits) > total_capacity: raise ValueError
CapacityExceeded(nbits, capacity) == nbits > capacity

\* Lines 282-332: error correction, length header, bits, capacity check.
EmbedCall(fl, data, rbf, bp, mode) ==
    /\ pcE = "idle"
    /\ pcX = "idle"
    /\ LET protected == apply_error_correction(data)
           full_data == LengthHeader(data, protected) \o protected
           bits == data_to_bits(full_data)
           capacity == SumCapacity(fl, 1, rbf, mode)
       IN  /\ frames' = fl
           /\ encrypted_data' = data
           /\ regions_by_frame' = rbf
           /\ bit_position' = bp
           /\ channel_mode' = mode
           /\ protected_data' = protected
           /\ all_bits' = bits
           /\ total_capacity' = capacity
           /\ IF CapacityExceeded(Len(bits), capacity)
              THEN /\ pcE' = "error"
                   /\ embed_result' = [kind |-> "error", error |-> "Data too large",
                                       needed |-> Len(bits), available |-> capacity]
              ELSE /\ pcE' = "loop"
                   /\ embed_result' = NoResult
    /\ UNCHANGED << current_bit, iE, modified_frames, writes, offers >>
    /\ UNCHANGED extractVars

\* if current_bit >= len(all_bits): break   (negated: the loop goes on)
EmbedLoopContinues(cur, nbits) == cur < nbits

\* bits_for_frame = all_bits[current_bit:current_bit + frame_capacity]
BitsForFrame(bits, cur, capacity) == SubSeq(bits, cur + 1, Min(Len(bits), cur + capacity))

\* modified_frames[frame_idx] = modified_frame
DictSet(dict, idx, frame) ==
    IF \E k \in 1..Len(dict) : dict[k].idx = idx
    THEN Array([k \in 1..Len(dict) |->
            IF dict[k].idx = idx THEN [idx |-> idx, frame |-> frame] ELSE dict[k]])
    ELSE Append(dict, [idx |-> idx, frame |-> frame])

\* Lines 334-358: one iteration of the frame loop.
EmbedFrame ==
    /\ pcE = "loop"
    /\ iE <= Len(frames)
    /\ EmbedLoopContinues(current_bit, Len(all_bits))
    /\ LET frame_idx == frames[iE].idx
           frame == frames[iE].frame
           regions == RegionsFor(regions_by_frame, frame_idx)
           frame_capacity == frame_capacity_bits(frame, regions, channel_mode)
           bits_for_frame == BitsForFrame(all_bits, current_bit, frame_capacity)
           r == embed_in_frame(frame, bits_for_frame, bit_position, regions, channel_mode)
       IN  /\ modified_frames' = DictSet(modified_frames, frame_idx, r.frame)
           /\ current_bit' = current_bit + r.bits_embedded
           /\ writes' = writes \o SlotsOfFrame(frame_idx, r.slots)
           /\ offers' = Append(offers, [idx |-> frame_idx,
                                        start |-> current_bit,
                                        capacity |-> frame_capacity,
                                        used |-> r.bits_embedded])
    /\ iE' = iE + 1
    /\ UNCHANGED << frames, encrypted_data, pcE, protected_data, all_bits,
                    total_capacity, embed_result >>
    /\ UNCHANGED planVars
    /\ UNCHANGED extractVars
    /\ UNCHANGED auxVars

\* Lines 360-366: the loop has ended; the dict is returned.
EmbedReturn ==
    /\ pcE = "loop"
    /\ (iE > Len(frames) \/ ~EmbedLoopContinues(current_bit, Len(all_bits)))
    /\ pcE' = "done"
    /\ embed_result' = [kind |-> "ok",
                        bits_embedded |-> current_bit,
                        data_length |-> Len(encrypted_data),
                        protected_length |-> Len(protected_data),
                        frames_used |-> Len(modified_frames)]
    /\ UNCHANGED << frames, encrypted_data, protected_data, all_bits, total_capacity,
                    current_bit, iE, modified_frames, writes, offers >>
    /\ UNCHANGED planVars
    /\ UNCHANGED extractVars
    /\ UNCHANGED auxVars

\* ------------------------------------------------------------------
\* extract_message
\* ------------------------------------------------------------------
\* modified_frames.get(idx, frame): the frame written over the original
DictGet(dict, idx, default) ==
    IF \E k \in 1..Len(dict) : dict[k].idx = idx
    THEN dict[CHOOSE k \in 1..Len(dict) : dict[k].idx = idx].frame
    ELSE default

\* The frames extract_message is given: the frames of a video ("raw"), or
\* after an embedding the frames embed_message returned ("returned"), or the
\* whole list with the returned frames in place of their originals
\* ("overlay", what write_video stores).
XFramesLen ==
    IF xsource = "returned" THEN Len(modified_frames) ELSE Len(frames)

XFrame(k) ==
    IF xsource = "returned" THEN modified_frames[k]
    ELSE IF xsource = "overlay"
    THEN [idx |-> frames[k].idx,
          frame |-> DictGet(modified_frames, frames[k].idx, frames[k].frame)]
    ELSE frames[k]

ExtractStart(source) ==
    /\ pcX = "idle"
    /\ pcX' = "loop"
    /\ xsource' = source
    /\ UNCHANGED << all_extracted_bits, header_extracted, data_length, iX,
                    extract_result, reads, header_parses, ecc_calls >>

\* extract_message called on the outcome of embed_message, same plan.
ExtractCallEmbedded(source) ==
    /\ pcE = "done"
    /\ ExtractStart(source)
    /\ UNCHANGED planVars
    /\ UNCHANGED embedVars

\* extract_message called on the frames fl of some video.
ExtractCallRaw(fl, rbf, bp, mode) ==
    /\ pcE = "idle"
    /\ ExtractStart("raw")
    /\ frames' = fl
    /\ regions_by_frame' = rbf
    /\ bit_position' = bp
    /\ channel_mode' = mode
    /\ UNCHANGED << encrypted_data, pcE, protected_data, all_bits, total_capacity,
                    current_bit, iE, modified_frames, embed_result, writes, offers >>

\* num_bits = plane_size (luma) or frame.size
NumBits(frame, mode) == IF mode = "luma" THEN frame.h * frame.w ELSE FrameSize(frame)

\* len(all_extracted_bits) >= cls.LENGTH_HEADER_BITS
HeaderReady(nbits) == nbits >= LENGTH_HEADER_BITS

\* Mutation of the length validation: 100 MiB itself is refused.
InvalidLengthAtMax(length) == length <= 0 \/ length >= MAX_DATA_LENGTH

\* if data_length <= 0 or data_length > 100 * 1024 * 1024
InvalidLength(length) == length <= 0 \/ length > MAX_DATA_LENGTH

\* Mutation of the stop test: the loop never breaks.
EnoughBitsNever(nbits, length) == FALSE

\* len(all_extracted_bits) >= cls.LENGTH_HEADER_BITS + (data_length * 8)
EnoughBits(nbits, length) == nbits >= LENGTH_HEADER_BITS + (length * 8)

\* header_bytes = bits_to_bytes(header_bits); int.from_bytes(header_bytes, 'big')
ParseHeader(bits) == int_from_bytes_big(bits_to_bytes(SubSeq(bits, 1, LENGTH_HEADER_BITS)))

\* Lines 390-431: one iteration of the frame loop.
ExtractFrame ==
    /\ pcX = "loop"
    /\ iX <= XFramesLen
    /\ LET frame_idx == XFrame(iX).idx
           frame == XFrame(iX).frame
           regions == RegionsFor(regions_by_frame, frame_idx)
           r == extract_from_frame(frame, NumBits(frame, channel_mode), bit_position,
                                   regions, channel_mode)
           bits == all_extracted_bits \o r.bits
           parse == ~header_extracted /\ HeaderReady(Len(bits))
           length == IF parse THEN ParseHeader(bits) ELSE data_length
       IN  /\ all_extracted_bits' = bits
           /\ reads' = reads \o SlotsOfFrame(frame_idx, r.slots)
           /\ data_length' = length
           /\ header_extracted' = (header_extracted \/ parse)
           /\ header_parses' = IF parse THEN header_parses + 1 ELSE header_parses
           /\ IF parse /\ InvalidLength(length)
              THEN /\ pcX' = "error"
                   /\ extract_result' = [kind |-> "error",
                                         error |-> "Invalid data length detected",
                                         length |-> length]
                   /\ iX' = iX
              ELSE IF (header_extracted \/ parse) /\ EnoughBits(Len(bits), length)
              THEN /\ pcX' = "finish"
                   /\ iX' = iX
                   /\ UNCHANGED extract_result
              ELSE /\ pcX' = "loop"
                   /\ iX' = iX + 1
                   /\ UNCHANGED extract_result
    /\ UNCHANGED << xsource, ecc_calls >>
    /\ UNCHANGED planVars
    /\ UNCHANGED embedVars
    /\ UNCHANGED auxVars

\* Mutation of the header guard after the loop: a missing header is let through.
HeaderMissingIgnored(extracted) == FALSE

\* if not header_extracted: raise ValueError
HeaderMissing(extracted) == ~extracted

\* Lines 433-447: after the loop (break, or frames exhausted).
ExtractFinish ==
    /\ \/ pcX = "finish"
       \/ pcX = "loop" /\ iX > XFramesLen
    /\ IF HeaderMissing(header_extracted)
       THEN /\ pcX' = "error"
            /\ extract_result' = [kind |-> "error",
                                  error |-> "Could not extract data length header"]
            /\ UNCHANGED ecc_calls
       ELSE LET data_bits == SubSeq(all_extracted_bits, LENGTH_HEADER_BITS + 1,
                                    Min(Len(all_extracted_bits),
                                        LENGTH_HEADER_BITS + (data_length * 8)))
                protected == bits_to_bytes(data_bits)
                decoded == decode_error_correction(protected)
            IN  /\ ecc_calls' = ecc_calls + 1
                /\ IF decoded.ok
                   THEN /\ pcX' = "done"
                        /\ extract_result' = [kind |-> "ok", data |-> decoded.data]
                   ELSE /\ pcX' = "error"
                        /\ extract_result' = [kind |-> "error",
                                              error |-> "Failed to decode data"]
    /\ UNCHANGED << xsource, all_extracted_bits, header_extracted,
                    data_length, iX, reads, header_parses >>
    /\ UNCHANGED planVars
    /\ UNCHANGED embedVars
    /\ UNCHANGED auxVars

\* ------------------------------------------------------------------
\* Specification
\* ------------------------------------------------------------------
\* embed_message is called with some frames, payload and plan.
EmbedMessage ==
    /\ pcE = "idle"
    /\ pcX = "idle"
    /\ \E n \in 0..MaxFrames, shape \in Shapes, kind \in CoverKinds,
          data \in Payloads, bp \in BitPositions, mode \in ChannelModes :
         \E order \in Orders(n) :
           \E rbf \in RegionPlans(FrameIndices(n, order)) :
             EmbedCall(CoverFrames(n, shape, order, kind), data, rbf, bp, mode)
    /\ UNCHANGED auxVars

\* extract_message is called on the frames of a video that carries a header.
ExtractMessageRaw ==
    /\ pcE = "idle"
    /\ pcX = "idle"
    /\ \E n \in 0..MaxFrames, shape \in Shapes, v \in HeaderValues,
          bp \in BitPositions, mode \in ChannelModes :
         \E order \in Orders(n) :
           \E rbf \in RegionPlans(FrameIndices(n, order)) :
             ExtractCallRaw(StegoFrames(n, shape, order, v, mode), rbf, bp, mode)
    /\ UNCHANGED auxVars

\* extract_message is called on what embed_message produced.
ExtractMessageEmbedded ==
    /\ pcE = "done"
    /\ pcX = "idle"
    /\ \E source \in { "returned", "overlay" } : ExtractCallEmbedded(source)
    /\ UNCHANGED auxVars

Next ==
    \/ EmbedMessage
    \/ EmbedFrame
    \/ EmbedReturn
    \/ ExtractMessageEmbedded
    \/ ExtractMessageRaw
    \/ ExtractFrame
    \/ ExtractFinish

Spec == Init /\ [][Next]_vars

\* ------------------------------------------------------------------
\* data_to_bits and bits_to_bytes on their own
\* ------------------------------------------------------------------
ByteValues == { 0, 1, 128, 165, 255 }

RECURSIVE ByteStringsOfLen(_)
ByteStringsOfLen(n) ==
    IF n = 0 THEN { << >> }
    ELSE { Append(b, v) : b \in ByteStringsOfLen(n - 1), v \in ByteValues }

\* The byte strings given to data_to_bits.
ByteStrings == UNION { ByteStringsOfLen(n) : n \in 0..MaxBytes }

InitBits ==
    /\ IdleOutsideBits
    /\ pcB = "start"
    /\ b_data \in ByteStrings
    /\ b_arg = << >>
    /\ b_bits = << >>
    /\ b_bytes = << >>

\* list(cls.data_to_bits(data))
DataToBits ==
    /\ pcB = "start"
    /\ pcB' = "bits"
    /\ b_bits' = data_to_bits(b_data)
    /\ UNCHANGED << b_data, b_arg, b_bytes >>
    /\ UNCHANGED outsideBits

\* A caller keeps a slice of the bit list (all_extracted_bits[:n]).
SliceBits ==
    /\ pcB = "bits"
    /\ pcB' = "slice"
    /\ \E n \in 0..(Len(b_bits) - 1) : b_bits' = SubSeq(b_bits, 1, n)
    /\ UNCHANGED << b_data, b_arg, b_bytes >>
    /\ UNCHANGED outsideBits

\* cls.bits_to_bytes(bits): pads bits in place, returns the bytes.
BitsToBytes ==
    /\ pcB \in { "bits", "slice" }
    /\ pcB' = "done"
    /\ b_arg' = b_bits
    /\ b_bits' = PadToByte(b_bits)
    /\ b_bytes' = bits_to_bytes(b_bits)
    /\ UNCHANGED b_data
    /\ UNCHANGED outsideBits

NextBits ==
    \/ DataToBits
    \/ SliceBits
    \/ BitsToBytes

SpecBits == InitBits /\ [][NextBits]_vars

\* ------------------------------------------------------------------
\* CryptoService (crypto_service.py)
\* ------------------------------------------------------------------
\* BLOCK_SIZE = 16
BLOCK_SIZE == 16

\* KEY_SIZES = {'AES-128': 16, 'AES-192': 24, 'AES-256': 32}
KEY_SIZES == [s \in { "AES-128", "AES-192", "AES-256" } |->
                 IF s = "AES-128" THEN 16 ELSE IF s = "AES-192" THEN 24 ELSE 32]

\* CIPHER_MODES, the keys of the dict
CIPHER_MODES == { "CBC", "CTR", "GCM", "CFB" }

\* data[a:b] of Python, 0-based, on a sequence
Slice(data, a, b) ==
    IF Min(b, Len(data)) <= a THEN << >> ELSE SubSeq(data, a + 1, Min(b, Len(data)))

\* data[a:]
SliceFrom(data, a) == Slice(data, a, Len(data))

\* str.encode('utf-8') of one code point
Utf8OfCodePoint(cp) ==
    IF cp < 128 THEN << cp >>
    ELSE IF cp < 2048 THEN << 192 + (cp \div 64), 128 + (cp % 64) >>
    ELSE IF cp < 65536
    THEN << 224 + (cp \div 4096), 128 + ((cp \div 64) % 64), 128 + (cp % 64) >>
    ELSE << 240 + (cp \div 262144), 128 + ((cp \div 4096) % 64),
            128 + ((cp \div 64) % 64), 128 + (cp % 64) >>

RECURSIVE encode_utf8_from(_, _)
encode_utf8_from(str, k) ==
    IF k > Len(str) THEN << >>
    ELSE Utf8OfCodePoint(str[k]) \o encode_utf8_from(str, k + 1)

\* str.encode('utf-8')
encode_utf8(str) == encode_utf8_from(str, 1)

IsContinuation(data, k) == k <= Len(data) /\ data[k] >= 128 /\ data[k] <= 191

\* The code point of the UTF-8 sequence starting at data[k] and its length in
\* bytes; length 0 when the bytes at k are not a well-formed sequence.
Utf8SequenceAt(data, k) ==
    LET b == data[k]
    IN  IF b < 128 THEN [n |-> 1, cp |-> b]
        ELSE IF b >= 194 /\ b <= 223 /\ IsContinuation(data, k + 1)
        THEN [n |-> 2, cp |-> (b - 192) * 64 + (data[k + 1] - 128)]
        ELSE IF b >= 224 /\ b <= 239 /\ IsContinuation(data, k + 1)
                /\ IsContinuation(data, k + 2)
        THEN LET cp == (b - 224) * 4096 + (data[k + 1] - 128) * 64 + (data[k + 2] - 128)
             IN  IF cp < 2048 \/ (cp >= 55296 /\ cp <= 57343)
                 THEN [n |-> 0, cp |-> 0]
                 ELSE [n |-> 3, cp |-> cp]
        ELSE IF b >= 240 /\ b <= 244 /\ IsContinuation(data, k + 1)
                /\ IsContinuation(data, k + 2) /\ IsContinuation(data, k + 3)
        THEN LET cp == (b - 240) * 262144 + (data[k + 1] - 128) * 4096
                       + (data[k + 2] - 128) * 64 + (data[k + 3] - 128)
             IN  IF cp < 65536 \/ cp > 1114111
                 THEN [n |-> 0, cp |-> 0]
                 ELSE [n |-> 4, cp |-> cp]
        ELSE [n |-> 0, cp |-> 0]

RECURSIVE decode_utf8_from(_, _, _)
decode_utf8_from(data, k, str) ==
    IF k > Len(data) THEN [ok |-> TRUE, str |-> str]
    ELSE LET q == Utf8SequenceAt(data, k)
         IN  IF q.n = 0 THEN [ok |-> FALSE, str |-> << >>]
             ELSE decode_utf8_from(data, k + q.n, Append(str, q.cp))

\* bytes.decode('utf-8'): the str, or not ok for UnicodeDecodeError
decode_utf8(data) == decode_utf8_from(data, 1, << >>)

\* Crypto.Util.Padding.pad(data, block_size): PKCS#7
pad(data, block_size) ==
    LET n == block_size - (Len(data) % block_size)
    IN  data \o [i \in 1..n |-> n]

\* Mutation of unpad: the padding is left in place.
unpad_keeps_padding(data, block_size) == [ok |-> TRUE, data |-> data]

\* Crypto.Util.Padding.unpad(data, block_size): the data without its padding,
\* or not ok for ValueError (length, padding length or padding bytes wrong)
unpad(data, block_size) ==
    IF Len(data) = 0 \/ Len(data) % block_size # 0
    THEN [ok |-> FALSE, data |-> << >>]
    ELSE LET n == data[Len(data)]
         IN  IF n < 1 \/ n > Min(block_size, Len(data))
             THEN [ok |-> FALSE, data |-> << >>]
             ELSE IF \E i \in (Len(data) - n + 1)..Len(data) : data[i] # n
             THEN [ok |-> FALSE, data |-> << >>]
             ELSE [ok |-> TRUE, data |-> SubSeq(data, 1, Len(data) - n)]

\* The block size of HMAC-SHA256 (hashes.SHA256()), in bytes.
HMAC_BLOCK_SIZE == 64

\* HMAC uses its key zero-filled to the block size (keys longer than a block
\* are hashed first; the passwords here are shorter).
HmacKey(key_material) ==
    key_material \o [i \in 1..(HMAC_BLOCK_SIZE - Len(key_material)) |-> 0]

RECURSIVE WeightedSum(_, _, _)
\* A digest of the bytes data[from..to] that depends on every byte and its
\* place.
WeightedSum(data, from, to) ==
    IF from > to THEN 0
    ELSE IF from = to THEN ((2 * from + 1) * data[from]) % 256
    ELSE (WeightedSum(data, from, (from + to) \div 2)
          + WeightedSum(data, ((from + to) \div 2) + 1, to)) % 256

\* Byte i of the derived key: a function of the HMAC key block, the salt and
\* the key length, standing for PBKDF2-HMAC-SHA256.
DerivedKeyByte(hk, hs, key_length, i) == (3 * hk + 5 * hs + 7 * i + key_length) % 256

DerivedKey(hk, hs, key_length) ==
    Array([i \in 1..key_length |-> DerivedKeyByte(hk, hs, key_length, i)])

\* kdf.derive(password.encode('utf-8'))
derive_key(pw, salt, key_length) ==
    DerivedKey(WeightedSum(HmacKey(encode_utf8(pw)), 1, HMAC_BLOCK_SIZE),
               WeightedSum(salt, 1, Len(salt)), key_length)

\* A keyed invertible map on blocks of BLOCK_SIZE bytes, standing for the AES
\* block function, and its inverse.
BlockEncrypt(key, block) ==
    Array([j \in 1..BLOCK_SIZE |->
        (block[j] + key[((j - 1) % Len(key)) + 1] + j) % 256])

BlockDecrypt(key, block) ==
    Array([j \in 1..BLOCK_SIZE |->
        (block[j] + 512 - key[((j - 1) % Len(key)) + 1] - j) % 256])

\* a ^ b on byte strings of the length of a
XorBytes(a, b) == Array([j \in 1..Len(a) |-> Xor8(a[j], b[j])])

RECURSIVE CbcEncryptFrom(_, _, _, _)
\* MODE_CBC encrypt: c[i] = E(p[i] ^ c[i-1]), c[0] = iv
CbcEncryptFrom(key, prev, data, k) ==
    IF k > Len(data) THEN << >>
    ELSE LET c == BlockEncrypt(key, XorBytes(SubSeq(data, k, k + BLOCK_SIZE - 1), prev))
         IN  c \o CbcEncryptFrom(key, c, data, k + BLOCK_SIZE)

RECURSIVE CbcDecryptFrom(_, _, _, _)
\* MODE_CBC decrypt: p[i] = D(c[i]) ^ c[i-1]
CbcDecryptFrom(key, prev, data, k) ==
    IF k > Len(data) THEN << >>
    ELSE XorBytes(BlockDecrypt(key, SubSeq(data, k, k + BLOCK_SIZE - 1)), prev)
         \o CbcDecryptFrom(key, SubSeq(data, k, k + BLOCK_SIZE - 1), data, k + BLOCK_SIZE)

RECURSIVE CfbFrom(_, _, _, _, _)
\* MODE_CFB with the default segment of 8 bits: each byte is xored with the
\* first byte of E(register), and the ciphertext byte is shifted into the
\* register.
CfbFrom(key, reg, data, k, decrypting) ==
    IF k > Len(data) THEN << >>
    ELSE LET out == Xor8(data[k], BlockEncrypt(key, reg)[1])
         IN  << out >> \o CfbFrom(key,
                                  Tail(reg) \o << IF decrypting THEN data[k] ELSE out >>,
                                  data, k + 1, decrypting)

\* The counter block of MODE_CTR: the nonce, then the block counter big-endian.
CtrCounterBlock(nonce, ctr) ==
    nonce \o [j \in 1..(BLOCK_SIZE - Len(nonce)) |->
                 IF j = BLOCK_SIZE - Len(nonce) THEN ctr % 256 ELSE 0]

CtrKeystreamByte(key, nonce, i) ==
    BlockEncrypt(key, CtrCounterBlock(nonce, (i - 1) \div BLOCK_SIZE))[((i - 1) % BLOCK_SIZE) + 1]

\* MODE_CTR encrypt and decrypt: data ^ keystream
CtrCrypt(key, nonce, data) ==
    Array([i \in 1..Len(data) |-> Xor8(data[i], CtrKeystreamByte(key, nonce, i))])

\* The counter block of MODE_GCM for a non-empty nonce: a block made of the
\* nonce, with the block counter added to its last byte.
GcmCounterBlock(nonce, ctr) ==
    Array([j \in 1..BLOCK_SIZE |->
        IF j = BLOCK_SIZE
        THEN (nonce[((j - 1) % Len(nonce)) + 1] + ctr) % 256
        ELSE nonce[((j - 1) % Len(nonce)) + 1]])

GcmKeystreamByte(key, nonce, i) ==
    BlockEncrypt(key, GcmCounterBlock(nonce, 1 + ((i - 1) \div BLOCK_SIZE)))[((i - 1) % BLOCK_SIZE) + 1]

\* MODE_GCM encrypt and decrypt: data ^ keystream
GcmCrypt(key, nonce, data) ==
    Array([i \in 1..Len(data) |-> Xor8(data[i], GcmKeystreamByte(key, nonce, i))])

GcmTagOf(mask, digest) == Array([j \in 1..BLOCK_SIZE |-> (mask[j] + digest) % 256])

\* The 16-byte MAC tag of MODE_GCM over the ciphertext, under key and nonce.
GcmTag(key, nonce, ciphertext) ==
    GcmTagOf(BlockEncrypt(key, GcmCounterBlock(nonce, 0)),
             (WeightedSum(ciphertext, 1, Len(ciphertext)) + Len(ciphertext)) % 256)

\* secrets.token_bytes(n): n random bytes
TokenSeeds == { 0, 90 }
token_bytes(n) == { Array([i \in 1..n |-> (s + i * (s % 7)) % 256]) : s \in TokenSeeds }

\* Mutation of the checks: the cipher mode is not checked.
EncryptInvalidModeUnchecked(pt, strength, mode) ==
    IF Len(pt) = 0 THEN "Plaintext cannot be empty"
    ELSE IF strength \notin DOMAIN KEY_SIZES THEN "Unsupported encryption strength"
    ELSE ""

\* Lines 78-85: the message of the ValueError encrypt raises, "" for none.
EncryptInvalid(pt, strength, mode) ==
    IF Len(pt) = 0 THEN "Plaintext cannot be empty"
    ELSE IF strength \notin DOMAIN KEY_SIZES THEN "Unsupported encryption strength"
    ELSE IF mode \notin CIPHER_MODES THEN "Unsupported cipher mode"
    ELSE ""

\* Lines 98-144: the envelope and the metadata for a key and an encoded text.
EncryptWith(key, data, strength, mode, salt, iv) ==
    IF mode = "GCM"
    THEN LET ciphertext == GcmCrypt(key, iv, data)
             tag == GcmTag(key, iv, ciphertext)
         IN  [kind |-> "ok",
              encrypted_data |-> salt \o iv \o tag \o ciphertext,
              metadata |-> [encryption_strength |-> strength, cipher_mode |-> mode,
                            salt_length |-> 16, nonce_length |-> Len(iv),
                            tag_length |-> 16],
              salt |-> salt, iv |-> iv, tag |-> tag, ciphertext |-> ciphertext,
              events |-> << "token_bytes", "token_bytes", "derive_key", "AES.new",
                            "encrypt_and_digest" >>]
    ELSE IF mode = "CTR"
    THEN LET ciphertext == CtrCrypt(key, iv, data)
         IN  [kind |-> "ok",
              encrypted_data |-> salt \o iv \o ciphertext,
              metadata |-> [encryption_strength |-> strength, cipher_mode |-> mode,
                            salt_length |-> 16, nonce_length |-> Len(iv)],
              salt |-> salt, iv |-> iv, tag |-> << >>, ciphertext |-> ciphertext,
              events |-> << "token_bytes", "token_bytes", "derive_key", "AES.new",
                            "encrypt" >>]
    ELSE LET ciphertext == IF mode = "CBC"
                           THEN CbcEncryptFrom(key, iv, pad(data, BLOCK_SIZE), 1)
                           ELSE CfbFrom(key, iv, data, 1, FALSE)
         IN  [kind |-> "ok",
              encrypted_data |-> salt \o iv \o ciphertext,
              metadata |-> [encryption_strength |-> strength, cipher_mode |-> mode,
                            salt_length |-> 16, iv_length |-> 16],
              salt |-> salt, iv |-> iv, tag |-> << >>, ciphertext |-> ciphertext,
              events |-> << "token_bytes", "token_bytes", "derive_key", "AES.new",
                            "encrypt" >>]

\* encrypt, once the checks of lines 78-85 have passed, for the salt and the
\* iv that token_bytes returned. The fields salt, iv, tag, ciphertext and
\* events of the result are ghosts: the parts packed and the calls made.
encrypt(pt, pw, strength, mode, salt, iv) ==
    EncryptWith(derive_key(pw, salt, KEY_SIZES[strength]), encode_utf8(pt),
                strength, mode, salt, iv)

DecryptError(msg, events, salt, nonce, tag, ciphertext) ==
    [kind |-> "ValueError", msg |-> msg, events |-> events,
     salt |-> salt, nonce |-> nonce, tag |-> tag, ciphertext |-> ciphertext]

\* Line 210: return plaintext.decode('utf-8')
DecryptDecoded(decoded, events, salt, nonce, tag, ciphertext) ==
    IF decoded.ok
    THEN [kind |-> "ok", plaintext |-> decoded.str, events |-> events,
          salt |-> salt, nonce |-> nonce, tag |-> tag, ciphertext |-> ciphertext]
    ELSE [kind |-> "UnicodeDecodeError", msg |-> "invalid utf-8", events |-> events,
          salt |-> salt, nonce |-> nonce, tag |-> tag, ciphertext |-> ciphertext]

\* Lines 180-187
DecryptGcm(key, salt, nonce, tag, ciphertext) ==
    IF Len(nonce) = 0
    THEN DecryptError("Nonce cannot be empty", << "derive_key", "AES.new" >>,
                      salt, nonce, tag, ciphertext)
    ELSE IF GcmTag(key, nonce, ciphertext) # tag
    THEN DecryptError("MAC check failed",
                      << "derive_key", "AES.new", "decrypt_and_verify" >>,
                      salt, nonce, tag, ciphertext)
    ELSE DecryptDecoded(decode_utf8(GcmCrypt(key, nonce, ciphertext)),
                        << "derive_key", "AES.new", "decrypt_and_verify", "decode" >>,
                        salt, nonce, tag, ciphertext)

\* Lines 189-195
DecryptCtr(key, salt, nonce, ciphertext) ==
    DecryptDecoded(decode_utf8(CtrCrypt(key, nonce, ciphertext)),
                   << "derive_key", "AES.new", "decrypt", "decode" >>,
                   salt, nonce, << >>, ciphertext)

\* Lines 197-208
DecryptCbcCfb(key, mode, salt, iv, ciphertext) ==
    IF Len(iv) # BLOCK_SIZE
    THEN DecryptError("Incorrect IV length", << "derive_key", "AES.new" >>,
                      salt, iv, << >>, ciphertext)
    ELSE IF mode = "CBC"
    THEN IF Len(ciphertext) % BLOCK_SIZE # 0
         THEN DecryptError("Data must be padded to 16 byte boundary in CBC mode",
                           << "derive_key", "AES.new", "decrypt" >>,
                           salt, iv, << >>, ciphertext)
         ELSE LET unpadded == unpad(CbcDecryptFrom(key, iv, ciphertext, 1), BLOCK_SIZE)
              IN  IF ~unpadded.ok
                  THEN DecryptError("Padding is incorrect.",
                                    << "derive_key", "AES.new", "decrypt", "unpad" >>,
                                    salt, iv, << >>, ciphertext)
                  ELSE DecryptDecoded(decode_utf8(unpadded.data),
                                      << "derive_key", "AES.new", "decrypt", "unpad",
                                         "decode" >>,
                                      salt, iv, << >>, ciphertext)
    ELSE DecryptDecoded(decode_utf8(CfbFrom(key, iv, ciphertext, 1, TRUE)),
                        << "derive_key", "AES.new", "decrypt", "decode" >>,
                        salt, iv, << >>, ciphertext)

\* Mutation of the unpacking: the CTR nonce is read as 16 bytes.
DecryptWithCtrNonce16(key, envelope, mode, salt) ==
    IF mode = "GCM"
    THEN DecryptGcm(key, salt, Slice(envelope, 16, 32),
                    Slice(envelope, 32, 48), SliceFrom(envelope, 48))
    ELSE IF mode = "CTR"
    THEN DecryptCtr(key, salt, Slice(envelope, 16, 32), SliceFrom(envelope, 32))
    ELSE DecryptCbcCfb(key, mode, salt, Slice(envelope, 16, 32),
                       SliceFrom(envelope, 32))

\* Lines 170-208 for the key derived from the salt
DecryptWith(key, envelope, mode, salt) ==
    IF mode = "GCM"
    THEN DecryptGcm(key, salt, Slice(envelope, 16, 32),
                    Slice(envelope, 32, 48), SliceFrom(envelope, 48))
    ELSE IF mode = "CTR"
    THEN DecryptCtr(key, salt, Slice(envelope, 16, 24), SliceFrom(envelope, 24))
    ELSE DecryptCbcCfb(key, mode, salt, Slice(envelope, 16, 32),
                       SliceFrom(envelope, 32))

\* decrypt. The fields salt, nonce, tag, ciphertext and events of the result
\* are ghosts: the parts read from the envelope and the calls made.
decrypt(envelope, pw, strength, mode) ==
    IF strength \notin DOMAIN KEY_SIZES
    THEN DecryptError("Unsupported encryption strength", << >>, << >>, << >>, << >>, << >>)
    ELSE IF mode \notin CIPHER_MODES
    THEN DecryptError("Unsupported cipher mode", << >>, << >>, << >>, << >>, << >>)
    ELSE DecryptWith(derive_key(pw, Slice(envelope, 0, 16), KEY_SIZES[strength]),
                     envelope, mode, Slice(envelope, 0, 16))

\* ------------------------------------------------------------------
\* Calls of encrypt and decrypt
\* ------------------------------------------------------------------
\* Code points of 1, 2 and 3 bytes in UTF-8: 'A', e-acute, the euro sign.
CodePoints == { 65, 233, 8364 }

RECURSIVE StrsOfLen(_)
StrsOfLen(n) ==
    IF n = 0 THEN { << >> }
    ELSE { Append(t, c) : t \in StrsOfLen(n - 1), c \in CodePoints }

\* 16 bytes in UTF-8, a whole block: twelve 'A' and U+1F600 (4 bytes).
LongText == << 65, 65, 65, 65, 65, 65, 65, 65, 65, 65, 65, 65, 128512 >>

Plaintexts == UNION { StrsOfLen(n) : n \in 0..MaxChars } \cup { LongText }

\* "a", "a" followed by U+0000, "b"
Passwords == { << 97 >>, << 97, 0 >>, << 98 >> }

Strengths == DOMAIN KEY_SIZES \cup { "AES-512" }
Modes == CIPHER_MODES \cup { "ECB" }

\* Lengths at which an envelope is cut before it is given to decrypt.
PrefixLengths == { 0, 8, 16, 20, 24, 31, 32, 47, 48 }

InitCrypto ==
    /\ IdleOutsideCrypto
    /\ pcC = "start"
    /\ plaintext \in Plaintexts
    /\ password \in Passwords
    /\ encryption_strength \in Strengths
    /\ cipher_mode \in Modes
    /\ enc_result = NoResult
    /\ dec_password = << >>
    /\ dec_data = << >>
    /\ dec_result = NoResult

\* CryptoService.encrypt(plaintext, password, encryption_strength, cipher_mode)
Encrypt ==
    /\ pcC = "start"
    /\ pcC' = "encrypted"
    /\ IF EncryptInvalid(plaintext, encryption_strength, cipher_mode) # ""
       THEN enc_result' = [kind |-> "ValueError",
                           msg |-> EncryptInvalid(plaintext, encryption_strength,
                                                  cipher_mode),
                           events |-> << >>]
       ELSE \E salt \in token_bytes(16),
               iv \in token_bytes(IF cipher_mode # "CTR" THEN 16 ELSE 8) :
               enc_result' = encrypt(plaintext, password, encryption_strength,
                                     cipher_mode, salt, iv)
    /\ UNCHANGED << plaintext, password, encryption_strength, cipher_mode,
                    dec_password, dec_data, dec_result >>
    /\ UNCHANGED outsideCrypto

\* CryptoService.decrypt(encrypted_data, pw, ...) of the envelope encrypt
\* returned, with the password of encrypt or another one.
Decrypt ==
    /\ pcC = "encrypted"
    /\ enc_result.kind = "ok"
    /\ pcC' = "decrypted"
    /\ \E pw \in Passwords :
          /\ dec_password' = pw
          /\ dec_data' = enc_result.encrypted_data
          /\ dec_result' = decrypt(enc_result.encrypted_data, pw,
                                   encryption_strength, cipher_mode)
    /\ UNCHANGED << plaintext, password, encryption_strength, cipher_mode, enc_result >>
    /\ UNCHANGED outsideCrypto

\* CryptoService.decrypt of the first n bytes of the envelope only.
DecryptPrefix ==
    /\ pcC = "encrypted"
    /\ enc_result.kind = "ok"
    /\ pcC' = "decrypted"
    /\ \E n \in PrefixLengths :
          /\ n < Len(enc_result.encrypted_data)
          /\ dec_password' = password
          /\ dec_data' = SubSeq(enc_result.encrypted_data, 1, n)
          /\ dec_result' = decrypt(SubSeq(enc_result.encrypted_data, 1, n), password,
                                   encryption_strength, cipher_mode)
    /\ UNCHANGED << plaintext, password, encryption_strength, cipher_mode, enc_result >>
    /\ UNCHANGED outsideCrypto

NextCrypto ==
    \/ Encrypt
    \/ Decrypt
    \/ DecryptPrefix

SpecCrypto == InitCrypto /\ [][NextCrypto]_vars

\* ------------------------------------------------------------------
\* VideoService (video_service.py)
\* ------------------------------------------------------------------
\* cap.read() at frame position pos (0-based) of the file: ret and the frame.
\* A frame of the file that cannot be decoded, or a position past the end,
\* gives ret = False.
CapRead(video, pos) ==
    IF pos >= 0 /\ pos < Len(video) /\ video[pos + 1].ok
    THEN [ret |-> TRUE, frame |-> video[pos + 1].frame]
    ELSE [ret |-> FALSE, frame |-> 0]

SetMin(S) == CHOOSE m \in S : \A e \in S : m <= e

RECURSIVE SortedOfSet(_)
\* sorted(S) of a set of integers
SortedOfSet(S) ==
    IF S = { } THEN << >>
    ELSE << SetMin(S) >> \o SortedOfSet(S \ { SetMin(S) })

\* Mutation of line 161: the indices are taken as given.
AsGiven(indices) == indices

\* Line 161: sorted(set(frame_indices))
SortedUnique(indices) == SortedOfSet({ indices[k] : k \in 1..Len(indices) })

RECURSIVE ReadFramesFrom(_, _, _)
\* Lines 164-169: cap.set(POS_FRAMES, frame_idx); ret, frame = cap.read();
\* if ret: frames.append((frame_idx, frame))
ReadFramesFrom(video, indices, i) ==
    IF i > Len(indices) THEN << >>
    ELSE (IF CapRead(video, indices[i]).ret
          THEN << [idx |-> indices[i], frame |-> CapRead(video, indices[i]).frame] >>
          ELSE << >>)
         \o ReadFramesFrom(video, indices, i + 1)

\* read_frames(video_path, frame_indices)
read_frames(video, indices) == ReadFramesFrom(video, SortedUnique(indices), 1)

RECURSIVE WriteFramesFrom(_, _, _, _)
\* Lines 222-230: for frame_idx in range(total_frames), with pos the position
\* of cap, which only cap.read() advances. The frames given to out.write.
WriteFramesFrom(video, frames_dict, frame_idx, pos) ==
    IF frame_idx >= Len(video) THEN << >>
    ELSE IF frame_idx \in DOMAIN frames_dict
    THEN << frames_dict[frame_idx] >>
         \o WriteFramesFrom(video, frames_dict, frame_idx + 1, pos)
    ELSE (IF CapRead(video, pos).ret THEN << CapRead(video, pos).frame >> ELSE << >>)
         \o WriteFramesFrom(video, frames_dict, frame_idx + 1, pos + 1)

\* write_video(output_path, frames, source_video_path): the frames written
write_video(video, frames_dict) == WriteFramesFrom(video, frames_dict, 0, 0)

\* The frames of a file of n frames; frame k (0-based) holds 10 + k, and is
\* decodable or not.
Videos(n) ==
    { [k \in 1..n |-> [frame |-> 9 + k, ok |-> okf[k]]] : okf \in [1..n -> BOOLEAN] }

IndexValues == { 0, 1, 2, 4 }

RECURSIVE IndexLists(_)
IndexLists(n) ==
    IF n = 0 THEN { << >> }
    ELSE { Append(l, v) : l \in IndexLists(n - 1), v \in IndexValues }

\* Dicts of modified frames; the frame for index k holds 90 + k.
Overlays == { [k \in K |-> 90 + k] : K \in SUBSET IndexValues }

InitVideo ==
    /\ IdleOutsideVideo
    /\ pcV = "start"
    /\ source_video \in UNION { Videos(n) : n \in 0..MaxVideoFrames }
    /\ \/ /\ frame_indices \in UNION { IndexLists(n) : n \in 0..MaxIndices }
          /\ overlay = << >>
       \/ /\ frame_indices = << >>
          /\ overlay \in Overlays
    /\ read_result = << >>
    /\ written = << >>

\* VideoService.read_frames(video_path, frame_indices)
ReadFrames ==
    /\ pcV = "start"
    /\ pcV' = "read"
    /\ read_result' = read_frames(source_video, frame_indices)
    /\ UNCHANGED << source_video, frame_indices, overlay, written >>
    /\ UNCHANGED outsideVideo

\* VideoService.write_video(output_path, frames, source_video_path)
WriteVideo ==
    /\ pcV = "start"
    /\ pcV' = "written"
    /\ written' = write_video(source_video, overlay)
    /\ UNCHANGED << source_video, frame_indices, overlay, read_result >>
    /\ UNCHANGED outsideVideo

NextVideo ==
    \/ ReadFrames
    \/ WriteVideo

SpecVideo == InitVideo /\ [][NextVideo]_vars

\* ------------------------------------------------------------------
\* VideoService.calculate_capacity and the embedding it announces
\* ------------------------------------------------------------------
\* BITS_PER_CHANNEL = 1
BITS_PER_CHANNEL == 1

\* get_video_info, lines 57-58: capacity_per_frame_bytes
capacity_per_frame_bytes(width, height) == (width * height * 3 * BITS_PER_CHANNEL) \div 8

\* Lines 111-116: frame_count; the indices in range are counted as listed.
FrameCount(total_frames, indices) ==
    IF Len(indices) = 0 THEN total_frames
    ELSE Cardinality({ k \in 1..Len(indices) :
                         0 <= indices[k] /\ indices[k] < total_frames })

\* calculate_capacity(video_path, frames), lines 118-138
calculate_capacity(width, height, total_frames, indices) ==
    LET total_capacity_bytes ==
            capacity_per_frame_bytes(width, height) * FrameCount(total_frames, indices)
        usable_capacity == (total_capacity_bytes * 9) \div 10
        encryption_overhead == 48
    IN  [kind |-> "ok",
         total_capacity_bytes |-> total_capacity_bytes,
         usable_capacity_bytes |-> Max(0, usable_capacity - encryption_overhead),
         max_characters |-> Max(0, usable_capacity - encryption_overhead),
         frame_count |-> FrameCount(total_frames, indices),
         capacity_per_frame_bytes |-> capacity_per_frame_bytes(width, height)]

\* Lines 325-328 of embed_message: the capacity check, for a bitstream of
\* nbits bits and frames of total capacity total_capacity.
CapacityCheck(nbits, capacity, envelope_length, frames_read) ==
    [kind |-> IF CapacityExceeded(nbits, capacity) THEN "error" ELSE "ok",
     envelope_length |-> envelope_length,
     bits |-> nbits,
     total_capacity |-> capacity,
     frames_read |-> frames_read]

\* tasks.py run_embed_pipeline up to the capacity check of embed_message:
\* encrypt, read_frames, then lines 282-328 under the default plan.
EmbedOutcome(envelope, fl) ==
    CapacityCheck(LENGTH_HEADER_BITS + 8 * Len(apply_error_correction(envelope)),
                  SumCapacity(fl, 1, [none |-> TRUE, map |-> << >>], "rgb"),
                  Len(envelope), Len(fl))

\* (height, width) of the videos whose capacity is asked for
CapShapes == { << 4, 4 >>, << 8, 8 >> }

\* A file of n readable frames of the shape; the pixels play no part here.
BlankVideo(n, shape) ==
    [k \in 1..n |-> [frame |-> [h |-> shape[1], w |-> shape[2], px |-> << >>],
                     ok |-> TRUE]]

\* The salt and the iv token_bytes returns here (their values play no part
\* in the lengths).
CapToken(n) == CHOOSE t \in token_bytes(n) : TRUE

\* Frame indices asked for.
CapIndexValues == { 0, 1, 2 }

RECURSIVE CapIndexLists(_)
CapIndexLists(n) ==
    IF n = 0 THEN { << >> }
    ELSE { Append(l, v) : l \in CapIndexLists(n - 1), v \in CapIndexValues }

\* The message of n characters 'A'.
MessageOfLength(n) == [i \in 1..n |-> 65]

InitCap ==
    /\ IdleOutsideCap
    /\ pcK = "start"
    /\ cap_video \in { BlankVideo(n, shape) : n \in 1..MaxVideoFrames, shape \in CapShapes }
    /\ cap_frames \in UNION { CapIndexLists(n) : n \in 1..MaxIndices }
    /\ cap_report = NoResult
    /\ cap_message = << >>
    /\ cap_mode = "GCM"
    /\ cap_outcome = NoResult

\* VideoService.calculate_capacity(video_path, cap_frames)
CalculateCapacity ==
    /\ pcK = "start"
    /\ pcK' = "reported"
    /\ cap_report' = calculate_capacity(cap_video[1].frame.w, cap_video[1].frame.h,
                                        Len(cap_video), cap_frames)
    /\ UNCHANGED << cap_video, cap_frames, cap_message, cap_mode, cap_outcome >>
    /\ UNCHANGED outsideCap

\* A message of at most usable_capacity_bytes bytes is encrypted and given,
\* with the frames read_frames returns for cap_frames, to embed_message.
EmbedReported ==
    /\ pcK = "reported"
    /\ pcK' = "embedded"
    /\ \E n \in { 1, cap_report.usable_capacity_bytes }, mode \in CIPHER_MODES :
          /\ n >= 1
          /\ cap_message' = MessageOfLength(n)
          /\ cap_mode' = mode
          /\ cap_outcome' =
                EmbedOutcome(encrypt(MessageOfLength(n), << 97 >>, "AES-256", mode,
                                     CapToken(16),
                                     CapToken(IF mode # "CTR" THEN 16 ELSE 8)
                                    ).encrypted_data,
                             read_frames(cap_video, cap_frames))
    /\ UNCHANGED << cap_video, cap_frames, cap_report >>
    /\ UNCHANGED outsideCap

NextCap ==
    \/ CalculateCapacity
    \/ EmbedReported

SpecCap == InitCap /\ [][NextCap]_vars

\* ------------------------------------------------------------------
\* AIService (ai_service.py)
\* ------------------------------------------------------------------
\* block_size = 16
block_size == 16

\* Lines 83-99: block_scores, one entry per 16x16 block in the order of the
\* scan (rows of blocks top to bottom, each left to right). scores[k] is the
\* texture score computed for the k-th block of the scan.
BlockScoresOf(blocks_y, blocks_x, scores) ==
    Array([k \in 1..(blocks_y * blocks_x) |->
        [x |-> ((k - 1) % blocks_x) * block_size,
         y |-> ((k - 1) \div blocks_x) * block_size,
         width |-> block_size,
         height |-> block_size,
         score |-> scores[k]]])

\* Mutation of the sort: an entry goes before the entries of equal score.
InsertByScoreBeforeEqual(sorted, e) ==
    LET n == Cardinality({ i \in 1..Len(sorted) : sorted[i].score > e.score })
    IN  SubSeq(sorted, 1, n) \o << e >> \o SubSeq(sorted, n + 1, Len(sorted))

\* One entry put in its place in a list sorted by descending score: after
\* every entry whose score is not smaller (list.sort is stable, also with
\* reverse=True).
InsertByScore(sorted, e) ==
    LET n == Cardinality({ i \in 1..Len(sorted) : sorted[i].score >= e.score })
    IN  SubSeq(sorted, 1, n) \o << e >> \o SubSeq(sorted, n + 1, Len(sorted))

RECURSIVE SortByScoreFrom(_, _, _)
SortByScoreFrom(list, k, sorted) ==
    IF k > Len(list) THEN sorted
    ELSE SortByScoreFrom(list, k + 1, InsertByScore(sorted, list[k]))

\* Line 102: block_scores.sort(key=lambda x: x['score'], reverse=True)
SortByScore(list) == SortByScoreFrom(list, 1, << >>)

\* Lines 102-113 for the sorted list (average_score, a float mean, is left
\* out of the result).
AnalysisOf(sorted) ==
    [kind |-> "ok",
     optimal_regions |-> SubSeq(sorted, 1, Len(sorted) \div 3),
     total_blocks |-> Len(sorted),
     recommended_capacity |-> (Len(sorted) \div 3) * block_size * block_size * 3]

\* analyze_frame_for_embedding(frame) for a frame of the given height and
\* width whose blocks have the given scores
analyze_frame_for_embedding(height, width, scores) ==
    AnalysisOf(SortByScore(BlockScoresOf(height \div block_size, width \div block_size,
                                         scores)))

\* Line 135: sample_interval = max(1, total_frames // 100)
sample_interval(total_frames) == Max(1, total_frames \div 100)

\* Lines 138-147: the positions of range(0, total_frames, sample_interval),
\* each read and scored (every frame of the video can be read).
SampledPositions(total_frames) ==
    Array([k \in 1..((total_frames + sample_interval(total_frames) - 1)
                        \div sample_interval(total_frames)) |->
        (k - 1) * sample_interval(total_frames)])

\* (height, width) of the frames analyzed: 1 to 6 whole blocks
AnalyzedShapes == { << 20, 16 >>, << 16, 40 >>, << 31, 50 >>, << 32, 33 >>, << 40, 48 >> }

ScoreValues == { 0, 1, 2 }

InitAi ==
    /\ IdleOutsideAi
    /\ pcA = "start"
    /\ \/ /\ a_shape \in AnalyzedShapes
          /\ a_scores \in [1..((a_shape[1] \div block_size) * (a_shape[2] \div block_size))
                             -> ScoreValues]
          /\ s_total_frames = 0
       \/ /\ a_shape = << 0, 0 >>
          /\ a_scores = << >>
          /\ s_total_frames \in 1..MaxTotalFrames
    /\ a_result = NoResult
    /\ s_sampled = << >>

\* AIService.analyze_frame_for_embedding(frame)
AnalyzeFrame ==
    /\ pcA = "start"
    /\ a_shape # << 0, 0 >>
    /\ pcA' = "analyzed"
    /\ a_result' = analyze_frame_for_embedding(a_shape[1], a_shape[2], a_scores)
    /\ UNCHANGED << a_shape, a_scores, s_total_frames, s_sampled >>
    /\ UNCHANGED outsideAi

\* AIService.select_best_frames(video_path): the positions read and scored
SelectBestFrames ==
    /\ pcA = "start"
    /\ s_total_frames > 0
    /\ pcA' = "selected"
    /\ s_sampled' = SampledPositions(s_total_frames)
    /\ UNCHANGED << a_shape, a_scores, a_result, s_total_frames >>
    /\ UNCHANGED outsideAi

NextAi ==
    \/ AnalyzeFrame
    \/ SelectBestFrames

SpecAi == InitAi /\ [][NextAi]_vars

\* ------------------------------------------------------------------
\* BatchService (batch_service.py)
\* ------------------------------------------------------------------
\* The start_batch calls made for the batch, and the jobs of the batch.
Calls == 1..MaxCalls

\* Lines 61-73: the job made from one configuration. raise_at is 0 for a
\* configuration _process_single_job works through to its return, else the
\* progress value reported last before the step that raises.
BatchJob(raise_at) ==
    [status |-> "pending", progress |-> 0, result |-> "None", error |-> "None",
     raise_at |-> raise_at]

\* Lines 77-85: the batch create_batch stores
NewBatch(jobs) ==
    [jobs |-> jobs, total_jobs |-> Len(jobs), completed_jobs |-> 0, failed_jobs |-> 0,
     status |-> "pending", progress |-> 0]

\* Lines 203-227: get_batch_status for the batch stored
get_batch_status(batch) ==
    [kind |-> "ok",
     status |-> batch.status,
     total_jobs |-> batch.total_jobs,
     completed_jobs |-> batch.completed_jobs,
     failed_jobs |-> batch.failed_jobs,
     progress |-> batch.progress,
     jobs |-> Array([j \in 1..Len(batch.jobs) |->
                 [status |-> batch.jobs[j].status, progress |-> batch.jobs[j].progress,
                  result |-> batch.jobs[j].result, error |-> batch.jobs[j].error]])]

\* Lines 135-137: int((done / total) * 100)
BatchProgress(completed, failed, total) == ((completed + failed) * 100) \div total

\* Lines 143-148: the final status
FinalStatus(batch) ==
    IF batch.failed_jobs = batch.total_jobs THEN "failed" ELSE "completed"

RaiseAts == { 0, 10, 70 }

JobConfigs == UNION { [1..n -> RaiseAts] : n \in 0..MaxJobs }

InitBatch ==
    /\ IdleOutsideBatch
    /\ pcS = "ready"
    /\ batches = << >>
    /\ start_pc = [c \in Calls |-> "idle"]
    /\ futures = [c \in Calls |-> << >>]
    /\ loaded = [c \in Calls |-> [job |-> 0, count |-> 0]]
    /\ start_result = [c \in Calls |-> NoResult]
    /\ cancel_result = NoResult
    /\ cancel_true = FALSE

\* create_batch(jobs_config)
CreateBatch ==
    /\ pcS = "ready"
    /\ batches = << >>
    /\ \E jobs_config \in JobConfigs :
          batches' = << NewBatch(Array([j \in 1..Len(jobs_config) |->
                                           BatchJob(jobs_config[j])])) >>
    /\ UNCHANGED << pcS, start_pc, futures, loaded, start_result, cancel_result, cancel_true >>
    /\ UNCHANGED outsideBatch

\* start_batch, lines 102-120: the batch is looked up and marked PROCESSING,
\* and every job is submitted to the executor of this call.
StartBatch(c) ==
    /\ pcS = "ready"
    /\ start_pc[c] = "idle"
    /\ IF batches = << >>
       THEN /\ start_pc' = [start_pc EXCEPT ![c] = "raised"]
            /\ start_result' = [start_result EXCEPT ![c] = [kind |-> "error"]]
            /\ UNCHANGED << batches, futures >>
       ELSE /\ start_pc' = [start_pc EXCEPT ![c] = "collecting"]
            /\ batches' = [batches EXCEPT ![1].status = "processing"]
            /\ futures' = [futures EXCEPT ![c] = [j \in 1..Len(batches[1].jobs) |-> "pending"]]
            /\ UNCHANGED start_result
    /\ UNCHANGED << pcS, loaded, cancel_result, cancel_true >>
    /\ UNCHANGED outsideBatch

\* _process_single_job, line 157: a worker thread takes the job up.
\* (max_workers = 4 threads: no job of the batch waits for another.)
WorkerBegin(c, j) ==
    /\ pcS = "ready"
    /\ j \in DOMAIN futures[c]
    /\ futures[c][j] = "pending"
    /\ futures' = [futures EXCEPT ![c][j] = "running"]
    /\ batches' = [batches EXCEPT ![1].jobs[j].status = "processing"]
    /\ UNCHANGED << pcS, start_pc, loaded, start_result, cancel_result, cancel_true >>
    /\ UNCHANGED outsideBatch

\* _process_single_job, lines 159-187: the job reports its progress and
\* returns its result, or raises at the step its configuration fails in.
WorkerEnd(c, j) ==
    /\ pcS = "ready"
    /\ j \in DOMAIN futures[c]
    /\ futures[c][j] = "running"
    /\ IF batches[1].jobs[j].raise_at = 0
       THEN /\ futures' = [futures EXCEPT ![c][j] = "returned"]
            /\ batches' = [batches EXCEPT ![1].jobs[j].progress = 100]
       ELSE /\ futures' = [futures EXCEPT ![c][j] = "raised"]
            /\ batches' = [batches EXCEPT ![1].jobs[j].progress = batches[1].jobs[j].raise_at]
    /\ UNCHANGED << pcS, start_pc, loaded, start_result, cancel_result, cancel_true >>
    /\ UNCHANGED outsideBatch

\* start_batch, lines 122-132 up to the read of the counter: a finished
\* future is taken from as_completed, the job gets its result or error and
\* its status, and the counter to increment is read.
CollectLoad(c, j) ==
    /\ pcS = "ready"
    /\ start_pc[c] = "collecting"
    /\ j \in DOMAIN futures[c]
    /\ futures[c][j] \in { "returned", "raised" }
    /\ start_pc' = [start_pc EXCEPT ![c] = "storing"]
    /\ IF futures[c][j] = "returned"
       THEN /\ batches' = [batches EXCEPT ![1].jobs[j].result = "result",
                                          ![1].jobs[j].status = "completed"]
            /\ loaded' = [loaded EXCEPT ![c] = [job |-> j, count |-> batches[1].completed_jobs]]
       ELSE /\ batches' = [batches EXCEPT ![1].jobs[j].error = "error",
                                          ![1].jobs[j].status = "failed"]
            /\ loaded' = [loaded EXCEPT ![c] = [job |-> j, count |-> batches[1].failed_jobs]]
    /\ UNCHANGED << pcS, futures, start_result, cancel_result, cancel_true >>
    /\ UNCHANGED outsideBatch

\* start_batch, lines 128/132 (the store of the += 1) to 140: the counter is
\* written and the batch progress computed from the counters.
CollectStore(c) ==
    /\ pcS = "ready"
    /\ start_pc[c] = "storing"
    /\ LET j == loaded[c].job
           completed == IF futures[c][j] = "returned" THEN loaded[c].count + 1
                        ELSE batches[1].completed_jobs
           failed == IF futures[c][j] = "raised" THEN loaded[c].count + 1
                     ELSE batches[1].failed_jobs
       IN  /\ batches' = [batches EXCEPT
                  ![1].completed_jobs = completed,
                  ![1].failed_jobs = failed,
                  ![1].progress = BatchProgress(completed, failed, batches[1].total_jobs)]
           /\ futures' = [futures EXCEPT ![c][j] = "collected"]
    /\ start_pc' = [start_pc EXCEPT ![c] = "collecting"]
    /\ loaded' = [loaded EXCEPT ![c] = [job |-> 0, count |-> 0]]
    /\ UNCHANGED << pcS, start_result, cancel_result, cancel_true >>
    /\ UNCHANGED outsideBatch

\* start_batch, lines 141-150: every future is collected, the executor is
\* closed, the final status is set and the status is returned.
FinishBatch(c) ==
    /\ pcS = "ready"
    /\ start_pc[c] = "collecting"
    /\ \A j \in DOMAIN futures[c] : futures[c][j] = "collected"
    /\ batches' = [batches EXCEPT ![1].status = FinalStatus(batches[1])]
    /\ start_result' = [start_result EXCEPT ![c] =
           get_batch_status([batches[1] EXCEPT !.status = FinalStatus(batches[1])])]
    /\ start_pc' = [start_pc EXCEPT ![c] = "returned"]
    /\ UNCHANGED << pcS, futures, loaded, cancel_result, cancel_true >>
    /\ UNCHANGED outsideBatch

\* cancel_batch(batch_id)
CancelBatch ==
    /\ pcS = "ready"
    /\ IF batches # << >> /\ batches[1].status = "processing"
       THEN /\ batches' = [batches EXCEPT ![1].status = "cancelled"]
            /\ cancel_result' = [kind |-> "ok", value |-> TRUE]
            /\ cancel_true' = TRUE
       ELSE /\ cancel_result' = [kind |-> "ok", value |-> FALSE]
            /\ UNCHANGED << batches, cancel_true >>
    /\ UNCHANGED << pcS, start_pc, futures, loaded, start_result >>
    /\ UNCHANGED outsideBatch

NextBatch ==
    \/ CreateBatch
    \/ \E c \in Calls : StartBatch(c)
    \/ \E c \in Calls : \E j \in 1..MaxJobs : WorkerBegin(c, j)
    \/ \E c \in Calls : \E j \in 1..MaxJobs : WorkerEnd(c, j)
    \/ \E c \in Calls : \E j \in 1..MaxJobs : CollectLoad(c, j)
    \/ \E c \in Calls : CollectStore(c)
    \/ \E c \in Calls : FinishBatch(c)
    \/ CancelBatch

SpecBatch == InitBatch /\ [][NextBatch]_vars

\* ------------------------------------------------------------------
\* Pipelines and tasks (tasks.py)
\* ------------------------------------------------------------------
\* Python values an option can have; PyMissing stands for a key that is not
\* in the dictionary.
PyMissing == [t |-> "missing", v |-> ""]
PyNone == [t |-> "NoneType", v |-> "None"]
PyBool(b) == [t |-> "bool", v |-> IF b THEN "True" ELSE "False"]
PyStr(s) == [t |-> "str", v |-> s]
PyInt(s) == [t |-> "int", v |-> s]
PyList(s) == [t |-> "list", v |-> s]

\* bool(x) of a value: None, False, 0, '' and [] are false.
PyTruthy(x) == ~ (x.t = "NoneType" \/ x = PyBool(FALSE) \/ x.v = "" \/ x = PyInt("0"))

\* dict.get(key) of a value stored or not under the key
PyGet(x) == IF x = PyMissing THEN PyNone ELSE x

\* bool(ai_options): None and the empty dictionary are false.
OptionsGiven(opts) ==
    /\ ~ opts.is_none
    /\ \/ opts.other_keys
       \/ opts.smart_compression_platform # PyMissing
       \/ opts.use_second_lsb # PyMissing
       \/ opts.prefer_luma # PyMissing

\* ai_service.py, lines 22-47: the two entries of each platform configuration
\* that the pipelines read
PLATFORM_CONFIGS ==
    [youtube |-> [use_second_lsb |-> TRUE, prefer_luma |-> TRUE],
     instagram |-> [use_second_lsb |-> TRUE, prefer_luma |-> TRUE],
     twitter |-> [use_second_lsb |-> TRUE, prefer_luma |-> TRUE],
     generic |-> [use_second_lsb |-> FALSE, prefer_luma |-> TRUE]]

\* AIService.get_platform_config(platform): PLATFORM_CONFIGS.get(platform,
\* generic), a TypeError for a key that cannot be hashed.
get_platform_config(platform) ==
    IF platform.t = "list" THEN [kind |-> "error", error |-> "TypeError"]
    ELSE IF platform.t = "str" /\ platform.v \in DOMAIN PLATFORM_CONFIGS
         THEN [kind |-> "ok", cfg |-> PLATFORM_CONFIGS[platform.v]]
         ELSE [kind |-> "ok", cfg |-> PLATFORM_CONFIGS["generic"]]

\* Lines 56-61 and 213-218: the explicit overrides
WithOverrides(opts, platform_bit, platform_mode) ==
    [kind |-> "ok",
     bit_position |-> IF PyGet(opts.use_second_lsb) = PyBool(TRUE) THEN 1 ELSE platform_bit,
     channel_mode |-> IF PyGet(opts.prefer_luma) = PyBool(FALSE) THEN "rgb"
                      ELSE IF PyGet(opts.prefer_luma) = PyBool(TRUE) THEN "luma"
                      ELSE platform_mode]

\* Lines 207-211: the platform lookup of run_extract_pipeline; an exception
\* of get_platform_config leaves the pipeline.
PlatformParamsOfExtract(opts) ==
    IF ~ PyTruthy(PyGet(opts.smart_compression_platform))
    THEN [kind |-> "ok", bit_position |-> 0, channel_mode |-> "rgb"]
    ELSE LET got == get_platform_config(opts.smart_compression_platform)
         IN  IF got.kind = "error"
             THEN [kind |-> "error", error |-> got.error]
             ELSE [kind |-> "ok",
                   bit_position |-> IF got.cfg.use_second_lsb THEN 1 ELSE 0,
                   channel_mode |-> IF got.cfg.prefer_luma THEN "luma" ELSE "rgb"]

\* Lines 41-53: the platform lookup of _build_ai_embed_params; an exception
\* of get_platform_config gives bit 0 and 'rgb'.
PlatformParamsOfEmbed(opts) ==
    IF ~ PyTruthy(PyGet(opts.smart_compression_platform))
    THEN [kind |-> "ok", bit_position |-> 0, channel_mode |-> "rgb"]
    ELSE LET got == get_platform_config(opts.smart_compression_platform)
         IN  IF got.kind = "error"
             THEN [kind |-> "ok", bit_position |-> 0, channel_mode |-> "rgb"]
             ELSE [kind |-> "ok",
                   bit_position |-> IF got.cfg.use_second_lsb THEN 1 ELSE 0,
                   channel_mode |-> IF got.cfg.prefer_luma THEN "luma" ELSE "rgb"]

\* _build_ai_embed_params(ai_options): bit_position and channel_mode of the
\* tuple it returns
build_ai_embed_params(opts) ==
    IF ~ OptionsGiven(opts)
    THEN [kind |-> "ok", bit_position |-> 0, channel_mode |-> "rgb"]
    ELSE WithOverrides(opts, PlatformParamsOfEmbed(opts).bit_position,
                       PlatformParamsOfEmbed(opts).channel_mode)

\* run_extract_pipeline, lines 201-218: bit_position and channel_mode
extract_ai_params(opts) ==
    IF ~ OptionsGiven(opts)
    THEN [kind |-> "ok", bit_position |-> 0, channel_mode |-> "rgb"]
    ELSE IF PlatformParamsOfExtract(opts).kind = "error"
         THEN PlatformParamsOfExtract(opts)
         ELSE WithOverrides(opts, PlatformParamsOfExtract(opts).bit_position,
                            PlatformParamsOfExtract(opts).channel_mode)

\* A progress value, in thousandths: base + (done / count * 100) * factor,
\* rounded down.
ScaledProgress(base, factor_thousandths, done, count) ==
    base * 1000 + (done * 100 * factor_thousandths) \div count

\* Lines 297-301: read_progress, 10 + progress * 0.35
read_progress(done, count) == ScaledProgress(10, 350, done, count)

\* Lines 309-313: embed_progress, 50 + progress * 0.2
embed_progress(done, count) == ScaledProgress(50, 200, done, count)

\* Lines 321-325: write_progress, 70 + progress * 0.25
write_progress(done, count) == ScaledProgress(70, 250, done, count)

PlatformValues ==
    { PyMissing, PyNone, PyStr(""), PyStr("youtube"), PyStr("generic"), PyStr("tiktok"),
      PyList("youtube") }

FlagValues == { PyMissing, PyNone, PyBool(TRUE), PyBool(FALSE), PyInt("1") }

AiOptions ==
    { [is_none |-> TRUE, other_keys |-> FALSE, smart_compression_platform |-> PyMissing,
       use_second_lsb |-> PyMissing, prefer_luma |-> PyMissing] }
    \cup [is_none : { FALSE }, other_keys : BOOLEAN,
          smart_compression_platform : PlatformValues,
          use_second_lsb : FlagValues, prefer_luma : FlagValues]

\* The counts that decide the loops of one run: the distinct frame indices
\* listed, the frames of them read_frames could read, the frames the loop of
\* embed_message went through (0: embed_message raised), and the frames of
\* the source video.
TaskPlans ==
    { p \in [indices : 0..MaxTaskFrames, readable : 0..MaxTaskFrames,
             embedded : 0..MaxTaskFrames, total_frames : 1..MaxTaskFrames] :
        /\ p.readable <= p.indices
        /\ p.embedded <= p.readable
        /\ p.readable <= p.total_frames }

InitTasks ==
    /\ IdleOutsideTasks
    /\ pcT = "start"
    /\ ai_options \in AiOptions
    /\ task_plan \in TaskPlans
    /\ embed_params = NoResult
    /\ extract_params = NoResult
    /\ task_step = 0
    /\ progress_log = << >>

\* embed_message_task, lines 286-320: the four update_state calls made
\* before the pipeline is run (0, 10, 50 and 70).
TaskBegin ==
    /\ pcT = "start"
    /\ progress_log' = << 0, 10000, 50000, 70000 >>
    /\ pcT' = IF task_plan.indices = 0 THEN "failed" ELSE "reading"
    /\ task_step' = 0
    /\ UNCHANGED << ai_options, embed_params, extract_params, task_plan >>
    /\ UNCHANGED outsideTasks

\* run_embed_pipeline, line 86: one iteration of the loop of read_frames,
\* which reports to read_progress; after the last one the pipeline raises
\* when no frame was read (lines 87-88).
TaskReadFrame ==
    /\ pcT = "reading"
    /\ task_step < task_plan.indices
    /\ progress_log' = Append(progress_log, read_progress(task_step + 1, task_plan.indices))
    /\ task_step' = IF task_step + 1 = task_plan.indices THEN 0 ELSE task_step + 1
    /\ pcT' = IF task_step + 1 < task_plan.indices THEN "reading"
              ELSE IF task_plan.readable = 0 THEN "failed" ELSE "params"
    /\ UNCHANGED << ai_options, embed_params, extract_params, task_plan >>
    /\ UNCHANGED outsideTasks

\* run_embed_pipeline, line 91: _build_ai_embed_params(ai_options);
\* embed_message raises before its loop when the capacity is short.
TaskBuildParams ==
    /\ pcT = "params"
    /\ embed_params' = build_ai_embed_params(ai_options)
    /\ pcT' = IF task_plan.embedded = 0 THEN "failed" ELSE "embedding"
    /\ UNCHANGED << ai_options, extract_params, task_plan, task_step, progress_log >>
    /\ UNCHANGED outsideTasks

\* run_embed_pipeline, lines 134-141: one iteration of the loop of
\* embed_message, which reports to embed_progress.
TaskEmbedFrame ==
    /\ pcT = "embedding"
    /\ task_step < task_plan.embedded
    /\ progress_log' = Append(progress_log, embed_progress(task_step + 1, task_plan.readable))
    /\ task_step' = IF task_step + 1 = task_plan.embedded THEN 0 ELSE task_step + 1
    /\ pcT' = IF task_step + 1 < task_plan.embedded THEN "embedding" ELSE "writing"
    /\ UNCHANGED << ai_options, embed_params, extract_params, task_plan >>
    /\ UNCHANGED outsideTasks

\* run_embed_pipeline, line 146: one iteration of the loop of write_video,
\* which reports to write_progress.
TaskWriteFrame ==
    /\ pcT = "writing"
    /\ task_step < task_plan.total_frames
    /\ progress_log' = Append(progress_log, write_progress(task_step + 1, task_plan.total_frames))
    /\ task_step' = task_step + 1
    /\ pcT' = IF task_step + 1 < task_plan.total_frames THEN "writing" ELSE "complete"
    /\ UNCHANGED << ai_options, embed_params, extract_params, task_plan >>
    /\ UNCHANGED outsideTasks

\* embed_message_task, lines 341-347: the last update_state call (100) and
\* the return of the result.
TaskComplete ==
    /\ pcT = "complete"
    /\ progress_log' = Append(progress_log, 100000)
    /\ pcT' = "done"
    /\ UNCHANGED << ai_options, embed_params, extract_params, task_plan, task_step >>
    /\ UNCHANGED outsideTasks

\* run_extract_pipeline, lines 201-218, for the same ai_options
ExtractDeriveParams ==
    /\ pcT \notin { "idle" }
    /\ extract_params = NoResult
    /\ extract_params' = extract_ai_params(ai_options)
    /\ UNCHANGED << pcT, ai_options, embed_params, task_plan, task_step, progress_log >>
    /\ UNCHANGED outsideTasks

NextTasks ==
    \/ TaskBegin
    \/ TaskReadFrame
    \/ TaskBuildParams
    \/ TaskEmbedFrame
    \/ TaskWriteFrame
    \/ TaskComplete
    \/ ExtractDeriveParams

SpecTasks == InitTasks /\ [][NextTasks]_vars

\* ------------------------------------------------------------------
\* Properties: vocabulary
\* ------------------------------------------------------------------
\* extract_message has returned or raised.
ExtractEnded == pcX \in { "done", "error" }

\* extract_message ran on what embed_message produced, under the same plan.
ExtractOfEmbedded == xsource \in { "returned", "overlay" }

\* No frame of the list has a (non-empty) region list: a whole-frame plan.
WholeFramePlan ==
    \A k \in 1..Len(frames) : ~Truthy(RegionsFor(regions_by_frame, frames[k].idx))

\* s is a prefix of t.
IsPrefix(s, t) == Len(s) <= Len(t) /\ SubSeq(t, 1, Len(s)) = s

RECURSIVE UnsignedBigEndian(_, _, _)
\* The unsigned number written by bits[from..to], most significant bit first.
UnsignedBigEndian(bits, from, to) ==
    IF from > to THEN 0
    ELSE 2 * UnsignedBigEndian(bits, from, to - 1) + bits[to]

\* Two regions of a height x width frame share no pixel.
RegionsDisjoint(r1, r2, height, width) ==
    \/ r1.width <= 0 \/ r1.height <= 0 \/ r2.width <= 0 \/ r2.height <= 0
    \/ Min(r1.x + r1.width, width) <= Max(0, r2.x)
    \/ Min(r2.x + r2.width, width) <= Max(0, r1.x)
    \/ Min(r1.y + r1.height, height) <= Max(0, r2.y)
    \/ Min(r2.y + r2.height, height) <= Max(0, r1.y)

\* The regions given for each frame are pairwise disjoint.
NonOverlappingPlan ==
    \A k \in 1..Len(frames) :
        \A i, j \in 1..Len(RegionsFor(regions_by_frame, frames[k].idx).list) :
            i < j => RegionsDisjoint(RegionsFor(regions_by_frame, frames[k].idx).list[i],
                                     RegionsFor(regions_by_frame, frames[k].idx).list[j],
                                     frames[k].frame.h, frames[k].frame.w)

\* The frame of a list of [idx, frame] entries that has index idx.
FrameOf(list, idx) == list[CHOOSE k \in 1..Len(list) : list[k].idx = idx].frame

\* ------------------------------------------------------------------
\* C1
\* ------------------------------------------------------------------
\* C1: under a whole-frame plan (no regions, channel_mode rgb, bit_position
\* 0), once embed_message has returned for a list of same-sized frames,
\* extract_message applied to the frames it returned, in the same order and
\* under the same plan, returns exactly the payload given to embed_message.
C1_RoundTrip ==
    (/\ ExtractEnded
     /\ xsource = "returned"
     /\ channel_mode = "rgb"
     /\ bit_position = 0
     /\ WholeFramePlan)
    => extract_result = [kind |-> "ok", data |-> encrypted_data]

\* A three-byte payload went through two returned frames and came back.
C1_Witness ==
    /\ pcX = "done"
    /\ xsource = "returned"
    /\ channel_mode = "rgb"
    /\ bit_position = 0
    /\ WholeFramePlan
    /\ Len(modified_frames) = 2
    /\ Len(encrypted_data) = 3
    /\ extract_result = [kind |-> "ok", data |-> encrypted_data]

\* ------------------------------------------------------------------
\* C2
\* ------------------------------------------------------------------
\* C2 (amended): in rgb mode, for any plan whose region lists are pairwise
\* disjoint within each frame (or whole frame), bit_position 0 or 1, the
\* (frame, row, column, channel) positions embed_message wrote are, in
\* order, a prefix of the positions extract_message read from those frames
\* under the same plan.
C2_PrefixNonOverlapping ==
    (/\ ExtractEnded
     /\ ExtractOfEmbedded
     /\ channel_mode = "rgb"
     /\ NonOverlappingPlan)
    => IsPrefix(writes, reads)

\* C2 as stated, for any plan: the positions written are a prefix of the
\* positions read.
C2_PrefixAnyPlan ==
    (/\ ExtractEnded
     /\ ExtractOfEmbedded
     /\ channel_mode = "rgb")
    => IsPrefix(writes, reads)

\* Two regions per frame, bit_position 1, the bits spread over two frames,
\* and extraction read on past the last position written.
C2_Witness ==
    /\ pcX = "done"
    /\ ExtractOfEmbedded
    /\ channel_mode = "rgb"
    /\ bit_position = 1
    /\ NonOverlappingPlan
    /\ ~WholeFramePlan
    /\ Len(modified_frames) = 2
    /\ Len(writes) > 0
    /\ Len(writes) < Len(reads)
    /\ writes[Len(writes)][1] # writes[1][1]
    /\ IsPrefix(writes, reads)

\* ------------------------------------------------------------------
\* C3
\* ------------------------------------------------------------------
\* C3: when the framed bitstream is exactly as long as the total capacity
\* embed_message sums over the supplied frames, embed_message does not raise
\* and returns its result; when the bitstream is longer, it raises the
\* capacity error carrying the bits needed and the bits available, and no
\* frame has been modified.
C3_CapacityBoundary ==
    pcE # "idle" =>
        /\ Len(all_bits) = total_capacity =>
              /\ pcE # "error"
              /\ (pcE = "done" => embed_result.kind = "ok")
        /\ Len(all_bits) > total_capacity =>
              /\ pcE = "error"
              /\ embed_result = [kind |-> "error", error |-> "Data too large",
                                 needed |-> Len(all_bits),
                                 available |-> total_capacity]
              /\ modified_frames = << >>
              /\ writes = << >>

\* The bitstream was one bit longer than the capacity of the frames.
C3_Witness ==
    /\ pcE = "error"
    /\ Len(frames) >= 1
    /\ Len(all_bits) = total_capacity + 1
    /\ embed_result.needed = embed_result.available + 1

\* ------------------------------------------------------------------
\* C4
\* ------------------------------------------------------------------
\* C4: the first 32 bits of the bitstream embed_message builds are the
\* big-endian unsigned byte length of the ECC-protected block (the payload
\* plus 10 parity bytes per chunk of 245), which is not the payload length,
\* and exactly that many bytes of bits follow the header.
C4_LengthHeader ==
    pcE # "idle" =>
        /\ Len(all_bits) >= LENGTH_HEADER_BITS
        /\ UnsignedBigEndian(all_bits, 1, 32) = Len(protected_data)
        /\ Len(protected_data) =
              Len(encrypted_data) + 10 * ((Len(encrypted_data) + 244) \div 245)
        /\ UnsignedBigEndian(all_bits, 1, 32) # Len(encrypted_data)
        /\ Len(all_bits) - 32 = 8 * UnsignedBigEndian(all_bits, 1, 32)

\* A three-byte payload: the header says 13.
C4_Witness ==
    /\ pcE = "done"
    /\ Len(encrypted_data) = 3
    /\ UnsignedBigEndian(all_bits, 1, 32) = 13
    /\ Len(all_bits) = 136

\* ------------------------------------------------------------------
\* C5
\* ------------------------------------------------------------------
\* C5: in rgb mode, while and after embed_message runs, (a) every sample of
\* a frame handed back by embed_in_frame equals the input sample in every
\* bit other than bit_position; (b) a sample that differs from the input was
\* assigned a payload bit; (c) bit bit_position of the k-th sample written
\* is the k-th bit of the bitstream (unless the same sample was written
\* again later).
C5_OnlyBitPositionChanges ==
    (pcX = "idle" /\ pcE \in { "loop", "done" } /\ channel_mode = "rgb") =>
        /\ \A m \in 1..Len(modified_frames) :
              \A j \in 1..Len(modified_frames[m].frame.px) :
                 /\ modified_frames[m].frame.px[j]
                       - BitAt(modified_frames[m].frame.px[j], bit_position)
                         * Pow2(bit_position)
                    = FrameOf(frames, modified_frames[m].idx).px[j]
                       - BitAt(FrameOf(frames, modified_frames[m].idx).px[j],
                               bit_position) * Pow2(bit_position)
                 /\ \/ modified_frames[m].frame.px[j]
                          = FrameOf(frames, modified_frames[m].idx).px[j]
                    \/ \E k \in 1..Len(writes) :
                          /\ writes[k][1] = modified_frames[m].idx
                          /\ SampleIndex(modified_frames[m].frame, writes[k][2],
                                         writes[k][3], writes[k][4]) = j
        /\ \A k \in 1..Len(writes) :
              \/ BitAt(FrameOf(modified_frames, writes[k][1]).px[
                          SampleIndex(FrameOf(modified_frames, writes[k][1]),
                                      writes[k][2], writes[k][3], writes[k][4])],
                       bit_position) = all_bits[k]
              \/ \E k2 \in (k + 1)..Len(writes) : writes[k2] = writes[k]

\* Bit 1 was written, and some sample of a returned frame changed.
C5_Witness ==
    /\ pcE = "done"
    /\ pcX = "idle"
    /\ channel_mode = "rgb"
    /\ bit_position = 1
    /\ Len(writes) >= 120
    /\ \E m \in 1..Len(modified_frames) :
          \E j \in 1..Len(modified_frames[m].frame.px) :
             modified_frames[m].frame.px[j]
                # FrameOf(frames, modified_frames[m].idx).px[j]

\* ------------------------------------------------------------------
\* C6
\* ------------------------------------------------------------------
\* C6 as stated: the frames are taken in the order of the supplied list,
\* the i-th listed frame receives the next min(remaining bits, capacity of
\* the frame under the plan) bits of the bitstream, and no frame is taken
\* once the bits have run out.
C6_FramesConsumeInOrder ==
    \A i \in 1..Len(offers) :
        /\ offers[i].idx = frames[i].idx
        /\ offers[i].start = (IF i = 1 THEN 0
                              ELSE offers[i - 1].start + offers[i - 1].used)
        /\ offers[i].start < Len(all_bits)
        /\ offers[i].used = Min(Len(all_bits) - offers[i].start, offers[i].capacity)

\* ------------------------------------------------------------------
\* C7
\* ------------------------------------------------------------------
\* C7 as stated: the modified_frames map embed_message returns holds exactly
\* the frames into which at least one bit was written, and frames_used
\* counts exactly those.
C7_ModifiedFramesExactlyWritten ==
    pcE = "done" =>
        /\ \A m \in 1..Len(modified_frames) :
              \E k \in 1..Len(writes) : writes[k][1] = modified_frames[m].idx
        /\ \A k \in 1..Len(writes) :
              \E m \in 1..Len(modified_frames) : modified_frames[m].idx = writes[k][1]
        /\ embed_result.frames_used
              = Cardinality({ writes[k][1] : k \in 1..Len(writes) })

\* ------------------------------------------------------------------
\* C8
\* ------------------------------------------------------------------
\* C8: extract_message has parsed the header once exactly when at least 32
\* bits are buffered (never twice, never later), and whenever the header is
\* valid and 32 + 8 * declared length bits are buffered it is no longer in
\* its frame loop: no further frame is read.
C8_HeaderOnceThenStop ==
    pcX # "idle" =>
        /\ header_parses = (IF Len(all_extracted_bits) >= 32 THEN 1 ELSE 0)
        /\ header_extracted = (header_parses = 1)
        /\ (/\ header_parses = 1
            /\ data_length >= 1
            /\ data_length <= 104857600
            /\ Len(all_extracted_bits) >= 32 + 8 * data_length) => pcX # "loop"
        /\ Len(reads) = Len(all_extracted_bits)

\* Extraction stopped with a frame of the list left unread.
C8_Witness ==
    /\ pcX = "done"
    /\ xsource = "overlay"
    /\ header_parses = 1
    /\ Len(frames) = 3
    /\ iX = 2
    /\ Len(all_extracted_bits) >= 32 + 8 * data_length
    /\ \A k \in 1..Len(reads) : reads[k][1] # frames[3].idx

\* ------------------------------------------------------------------
\* C9
\* ------------------------------------------------------------------
\* C9: once the header is parsed, extract_message has raised the
\* invalid-length error (and returns no bytes) exactly when the declared
\* length, the big-endian value of the first 32 bits, is 0 or above
\* 100 MiB; a declared length from 1 to 100 MiB inclusive is accepted.
C9_InvalidLength ==
    header_parses = 1 =>
        /\ all_extracted_bits[1] = 0 =>
              data_length = UnsignedBigEndian(all_extracted_bits, 1, 32)
        /\ all_extracted_bits[1] = 1 => data_length > 104857600
        /\ (data_length = 0 \/ data_length > 104857600) =>
              /\ pcX = "error"
              /\ extract_result.kind = "error"
              /\ extract_result.error = "Invalid data length detected"
        /\ (data_length >= 1 /\ data_length <= 104857600) =>
              \/ extract_result.kind # "error"
              \/ extract_result.error # "Invalid data length detected"

\* A header declaring exactly 100 MiB was accepted: the frames were read to
\* the end and the bits went to decode_error_correction.
C9_Witness ==
    /\ header_parses = 1
    /\ data_length = 104857600
    /\ xsource = "raw"
    /\ ExtractEnded
    /\ ecc_calls = 1

\* ------------------------------------------------------------------
\* C10
\* ------------------------------------------------------------------
\* C10: when extract_message ends with fewer than 32 bits read from the
\* whole frame list, it has raised the header-not-found error, and with
\* fewer than 32 bits buffered decode_error_correction has never been called.
C10_HeaderNotFound ==
    (pcX # "idle" /\ Len(all_extracted_bits) < 32) =>
        /\ ecc_calls = 0
        /\ pcX # "done"
        /\ pcX # "finish"
        /\ pcX = "error" =>
              /\ iX > XFramesLen
              /\ extract_result = [kind |-> "error",
                                   error |-> "Could not extract data length header"]

\* A non-empty frame list gave some bits, but fewer than 32.
C10_Witness ==
    /\ pcX = "error"
    /\ Len(frames) >= 1
    /\ Len(all_extracted_bits) >= 1
    /\ Len(all_extracted_bits) < 32
    /\ ecc_calls = 0
    /\ extract_result = [kind |-> "error",
                         error |-> "Could not extract data length header"]

\* ------------------------------------------------------------------
\* C11
\* ------------------------------------------------------------------
\* C11: data_to_bits emits the bits of each byte most significant first;
\* bits_to_bytes of the whole bit list of a non-empty byte string gives the
\* byte string back; bits_to_bytes of a list whose length is not a multiple
\* of 8 pads it with zero bits at the end up to the next byte boundary, and
\* each byte returned is the big-endian value of its 8 bits.
C11_BitsRoundTrip ==
    /\ pcB \in { "bits", "done" } =>
          \A i \in 1..Len(b_data) :
             UnsignedBigEndian(IF pcB = "bits" THEN b_bits ELSE b_arg,
                               8 * i - 7,
                               Min(8 * i, Len(IF pcB = "bits" THEN b_bits ELSE b_arg)))
                = b_data[i] \div Pow2(Max(0, 8 * i - Len(IF pcB = "bits" THEN b_bits
                                                         ELSE b_arg)))
    /\ pcB = "bits" => Len(b_bits) = 8 * Len(b_data)
    /\ (pcB = "done" /\ Len(b_data) > 0 /\ Len(b_arg) = 8 * Len(b_data)) =>
          b_bytes = b_data
    /\ pcB = "done" =>
          /\ Len(b_bits) = 8 * ((Len(b_arg) + 7) \div 8)
          /\ SubSeq(b_bits, 1, Len(b_arg)) = b_arg
          /\ \A k \in (Len(b_arg) + 1)..Len(b_bits) : b_bits[k] = 0
          /\ Len(b_bytes) * 8 = Len(b_bits)
          /\ \A n \in 1..Len(b_bytes) :
                b_bytes[n] = UnsignedBigEndian(b_bits, 8 * n - 7, 8 * n)

\* Thirteen bits of <<165, 128>> were kept: the second byte is padded.
C11_Witness ==
    /\ pcB = "done"
    /\ b_data = << 165, 128 >>
    /\ Len(b_arg) = 13
    /\ Len(b_bits) = 16
    /\ b_bytes = << 165, 128 >>

\* ------------------------------------------------------------------
\* C12
\* ------------------------------------------------------------------
\* C12: a frame to which no regions apply (no plan, no entry for the frame,
\* or an empty list) is assigned a capacity of width * height * 3 bits in
\* rgb mode and width * height bits in luma mode, in the frame loop and in
\* the total the capacity check uses.
C12_WholeFrameCapacity ==
    /\ \A i \in 1..Len(offers) :
          ~Truthy(RegionsFor(regions_by_frame, offers[i].idx)) =>
             offers[i].capacity =
                IF channel_mode = "rgb"
                THEN frames[i].frame.w * frames[i].frame.h * 3
                ELSE frames[i].frame.w * frames[i].frame.h
    /\ (pcE # "idle" /\ WholeFramePlan /\ Len(frames) > 0) =>
          total_capacity =
             IF channel_mode = "rgb"
             THEN Len(frames) * Len(frames[1].frame.px)
             ELSE Len(frames) * (Len(frames[1].frame.px) \div 3)

\* Luma mode, a plan with regions for the first frame only: the second frame
\* is taken whole, 5 x 8 = 40 bits.
C12_Witness ==
    /\ channel_mode = "luma"
    /\ ~regions_by_frame.none
    /\ Len(offers) >= 2
    /\ Truthy(RegionsFor(regions_by_frame, offers[1].idx))
    /\ ~Truthy(RegionsFor(regions_by_frame, offers[2].idx))
    /\ offers[2].capacity = 40
    /\ offers[2].used = 40

\* ------------------------------------------------------------------
\* C13
\* ------------------------------------------------------------------
\* Pixels of a height x width frame inside the rectangle r; none when the
\* width or the height of r is not positive.
IntersectionArea(r, height, width) ==
    Cardinality({ p \in (0..(height - 1)) \X (0..(width - 1)) :
                    /\ r.y <= p[1] /\ p[1] < r.y + r.height
                    /\ r.x <= p[2] /\ p[2] < r.x + r.width })

RECURSIVE SumIntersectionArea(_, _, _, _)
SumIntersectionArea(list, k, height, width) ==
    IF k > Len(list) THEN 0
    ELSE IntersectionArea(list[k], height, width)
         + SumIntersectionArea(list, k + 1, height, width)

\* C13: the capacity computed for a frame with a region list is the sum over
\* the regions of the area of the region's intersection with the frame, times
\* the number of channels, and it is the number of bits embed_in_frame can
\* write into the frame and extract_from_frame can read from it.
C13_CapacityIsWritable ==
    \A i \in 1..Len(offers) :
        LET frame == frames[i].frame
            regions == RegionsFor(regions_by_frame, offers[i].idx)
        IN  Truthy(regions) =>
              /\ offers[i].capacity =
                    SumIntersectionArea(regions.list, 1, frame.h, frame.w)
                       * (IF channel_mode = "rgb" THEN 3 ELSE 1)
              /\ offers[i].capacity = Len(EmbedSlots(frame, regions, channel_mode))
              /\ offers[i].capacity =
                    Len(ExtractSlots(frame, offers[i].capacity + 1, regions, channel_mode))

\* ------------------------------------------------------------------
\* C14 .. C18: CryptoService
\* ------------------------------------------------------------------
\* decrypt was given the whole envelope that encrypt returned.
DecryptOfEnvelope ==
    /\ pcC = "decrypted"
    /\ enc_result.kind = "ok"
    /\ dec_data = enc_result.encrypted_data

\* C14: for every non-empty plaintext (a string of Unicode scalar values),
\* password, key size of AES-128/192/256 and mode of CBC/CTR/GCM/CFB, encrypt
\* returns an envelope and decrypt of that envelope with the same password,
\* key size and mode returns the plaintext.
C14_CryptoRoundTrip ==
    /\ (/\ pcC \in { "encrypted", "decrypted" }
        /\ Len(plaintext) > 0
        /\ encryption_strength \in { "AES-128", "AES-192", "AES-256" }
        /\ cipher_mode \in { "CBC", "CTR", "GCM", "CFB" })
       => enc_result.kind = "ok"
    /\ (DecryptOfEnvelope /\ dec_password = password)
       => (dec_result.kind = "ok" /\ dec_result.plaintext = plaintext)

\* A 16-byte text with a 4-byte character goes through CBC with AES-192: two
\* blocks of ciphertext, and decrypt returns the text.
C14_Witness ==
    /\ DecryptOfEnvelope
    /\ dec_password = password
    /\ plaintext = LongText
    /\ cipher_mode = "CBC"
    /\ encryption_strength = "AES-192"
    /\ Len(enc_result.ciphertext) = 32
    /\ dec_result.kind = "ok"
    /\ dec_result.plaintext = LongText

\* C15: the envelope is the 16-byte salt, then the nonce/IV (8 bytes for CTR,
\* 16 for CBC, CFB and GCM), then a 16-byte tag for GCM only, then the
\* ciphertext, as long as the encoded plaintext except for CBC, where it is
\* padded to the next multiple of 16; decrypt reads the salt, the nonce/IV,
\* the tag and the ciphertext from those offsets.
C15_EnvelopeLayout ==
    (pcC \in { "encrypted", "decrypted" } /\ enc_result.kind = "ok") =>
        LET e == enc_result.encrypted_data
            n == IF cipher_mode = "CTR" THEN 8 ELSE 16
            t == IF cipher_mode = "GCM" THEN 16 ELSE 0
        IN  /\ Len(enc_result.salt) = 16
            /\ Len(enc_result.iv) = n
            /\ Len(enc_result.tag) = t
            /\ Len(e) = 16 + n + t + Len(enc_result.ciphertext)
            /\ SubSeq(e, 1, 16) = enc_result.salt
            /\ SubSeq(e, 17, 16 + n) = enc_result.iv
            /\ SubSeq(e, 17 + n, 16 + n + t) = enc_result.tag
            /\ SubSeq(e, 17 + n + t, Len(e)) = enc_result.ciphertext
            /\ IF cipher_mode = "CBC"
               THEN /\ Len(enc_result.ciphertext) % 16 = 0
                    /\ Len(enc_result.ciphertext) > Len(encode_utf8(plaintext))
                    /\ Len(enc_result.ciphertext) <= Len(encode_utf8(plaintext)) + 16
               ELSE Len(enc_result.ciphertext) = Len(encode_utf8(plaintext))
            /\ DecryptOfEnvelope =>
                  /\ dec_result.salt = enc_result.salt
                  /\ dec_result.nonce = enc_result.iv
                  /\ dec_result.tag = enc_result.tag
                  /\ dec_result.ciphertext = enc_result.ciphertext

\* A 5-byte text under CTR: an envelope of 16 + 8 + 5 bytes, from which
\* decrypt reads an 8-byte nonce and 5 bytes of ciphertext.
C15_Witness ==
    /\ DecryptOfEnvelope
    /\ cipher_mode = "CTR"
    /\ plaintext = << 233, 8364 >>
    /\ Len(enc_result.encrypted_data) = 29
    /\ Len(dec_result.nonce) = 8
    /\ Len(dec_result.ciphertext) = 5
    /\ dec_result.nonce # SubSeq(enc_result.salt, 1, 8)

\* C16: encrypt raises the invalid-parameter error (ValueError) without
\* generating a salt or deriving a key whenever the plaintext is empty, the
\* key size is not AES-128/192/256 or the mode is not CBC/CTR/GCM/CFB.
C16_EncryptRejectsInvalid ==
    (/\ pcC \in { "encrypted", "decrypted" }
     /\ \/ Len(plaintext) = 0
        \/ encryption_strength \notin { "AES-128", "AES-192", "AES-256" }
        \/ cipher_mode \notin { "CBC", "CTR", "GCM", "CFB" })
    => /\ enc_result.kind = "ValueError"
       /\ enc_result.events = << >>

\* A non-empty plaintext with a valid key size and the mode ECB is rejected.
C16_Witness ==
    /\ pcC = "encrypted"
    /\ Len(plaintext) > 0
    /\ encryption_strength = "AES-128"
    /\ cipher_mode = "ECB"
    /\ enc_result.kind = "ValueError"
    /\ enc_result.msg = "Unsupported cipher mode"
    /\ enc_result.events = << >>

\* The fixed header of a mode: salt, nonce/IV, and the tag for GCM.
HeaderLength(mode) ==
    16 + (IF mode = "CTR" THEN 8 ELSE 16) + (IF mode = "GCM" THEN 16 ELSE 0)

\* C17: decrypt of an envelope shorter than the fixed header of the mode
\* raises an error, and it neither derives a key nor creates or uses a cipher
\* before raising it.
C17_TruncatedRejectedFirst ==
    (pcC = "decrypted" /\ Len(dec_data) < HeaderLength(cipher_mode))
    => /\ dec_result.kind # "ok"
       /\ dec_result.events = << >>

\* C18: under GCM, decrypt of the envelope with a password different from the
\* password of encrypt raises the authentication error (MAC check failed)
\* and returns no plaintext.
C18_WrongPasswordRejected ==
    (DecryptOfEnvelope /\ cipher_mode = "GCM" /\ dec_password # password)
    => /\ dec_result.kind = "ValueError"
       /\ dec_result.msg = "MAC check failed"

\* ------------------------------------------------------------------
\* C19, C20: VideoService
\* ------------------------------------------------------------------
\* C19: for every frame position k of the source, the k-th frame written is
\* overlay[k] when k is a key of the overlay dict and the source's own frame
\* k otherwise (stated for sources all of whose frames can be read).
C19_OverlayOrOriginal ==
    (pcV = "written" /\ \A k \in 1..Len(source_video) : source_video[k].ok) =>
        /\ Len(written) = Len(source_video)
        /\ \A k \in 0..(Len(source_video) - 1) :
              written[k + 1] = IF k \in DOMAIN overlay
                               THEN overlay[k]
                               ELSE source_video[k + 1].frame

\* Index idx was asked for and cap.read() at idx succeeds.
ReadableRequested(idx) ==
    /\ \E k \in 1..Len(frame_indices) : frame_indices[k] = idx
    /\ idx >= 0 /\ idx < Len(source_video)
    /\ source_video[idx + 1].ok

\* C20: read_frames returns the readable requested indices, each once, in
\* strictly ascending order, each with the frame of the file at that index,
\* for any order and repetition in the request; the other requested indices
\* are left out and nothing is raised.
C20_ReadFramesSortedUnique ==
    pcV = "read" =>
        /\ \A i \in 1..Len(read_result) :
              /\ ReadableRequested(read_result[i].idx)
              /\ read_result[i].frame = source_video[read_result[i].idx + 1].frame
        /\ \A i \in 1..(Len(read_result) - 1) :
              read_result[i].idx < read_result[i + 1].idx
        /\ \A idx \in IndexValues :
              ReadableRequested(idx) =>
                 \E i \in 1..Len(read_result) : read_result[i].idx = idx

\* The request 2, 0, 2 on a file of three frames whose frame 1 cannot be
\* decoded returns frame 0, then frame 2.
C20_Witness ==
    /\ pcV = "read"
    /\ frame_indices = << 2, 0, 2 >>
    /\ Len(source_video) = 3
    /\ ~source_video[2].ok
    /\ Len(read_result) = 2
    /\ read_result[1].idx = 0
    /\ read_result[2].idx = 2

\* ------------------------------------------------------------------
\* C25, C26: ends of extract_message and embed_message
\* ------------------------------------------------------------------
\* C25: when extract_message ends with a valid header parsed and fewer than
\* 32 + 8 * data_length bits buffered (the frames ran out), it has raised an
\* error: it returns no bytes decoded from the truncated block.
C25_TruncatedStreamFails ==
    (/\ ExtractEnded
     /\ header_extracted
     /\ data_length >= 1 /\ data_length <= 104857600
     /\ Len(all_extracted_bits) < 32 + 8 * data_length)
    => extract_result.kind = "error"

\* C26: when embed_message returns normally, bits_embedded is the length of
\* the whole framed bitstream, 32 + 8 * protected_length, whatever the plan.
C26_AllBitsEmbedded ==
    pcE = "done" =>
        /\ embed_result.kind = "ok"
        /\ embed_result.bits_embedded = 32 + 8 * embed_result.protected_length
        /\ embed_result.bits_embedded = Len(all_bits)

\* ------------------------------------------------------------------
\* C22
\* ------------------------------------------------------------------
\* C22: a message of at most usable_capacity_bytes bytes, as reported by
\* calculate_capacity for a video and an index list, encrypted under any
\* mode, passes the capacity check of embed_message on the frames read_frames
\* returns for that list.
C22_ReportedCapacityFits ==
    (pcK = "embedded" /\ Len(encode_utf8(cap_message)) <= cap_report.usable_capacity_bytes)
    => cap_outcome.kind = "ok"

\* ------------------------------------------------------------------
\* C23, C24: AIService
\* ------------------------------------------------------------------
\* Place of a block in the row-major scan of a frame of the analyzed width.
ScanPlace(b) == (b.y \div 16) * (a_shape[2] \div 16) + (b.x \div 16) + 1

\* Block b comes before block c: a greater score, or the same score and an
\* earlier place in the scan.
RanksBefore(b, c) ==
    \/ b.score > c.score
    \/ b.score = c.score /\ ScanPlace(b) < ScanPlace(c)

\* C23: optimal_regions holds floor(n / 3) of the frame's n 16x16 blocks,
\* each with its own score, in descending order of score with equal scores in
\* scan order, and every block left out ranks after every block returned.
C23_TopThirdStable ==
    pcA = "analyzed" =>
        LET n == (a_shape[1] \div 16) * (a_shape[2] \div 16)
            top == a_result.optimal_regions
        IN  /\ Len(top) = n \div 3
            /\ \A i \in 1..Len(top) :
                  /\ ScanPlace(top[i]) \in 1..n
                  /\ top[i].x % 16 = 0 /\ top[i].y % 16 = 0
                  /\ top[i].x + 16 <= a_shape[2] /\ top[i].y + 16 <= a_shape[1]
                  /\ top[i].width = 16 /\ top[i].height = 16
                  /\ top[i].score = a_scores[ScanPlace(top[i])]
            /\ \A i \in 1..(Len(top) - 1) : RanksBefore(top[i], top[i + 1])
            /\ \A k \in 1..n :
                  (\A i \in 1..Len(top) : ScanPlace(top[i]) # k) =>
                     \A i \in 1..Len(top) :
                        \/ top[i].score > a_scores[k]
                        \/ top[i].score = a_scores[k] /\ ScanPlace(top[i]) < k

\* Six blocks, the scores 1, 2, 1, 2, 1, 2 in scan order: the blocks returned
\* are the second and the fourth of the scan, in that order.
C23_Witness ==
    /\ pcA = "analyzed"
    /\ a_shape = << 40, 48 >>
    /\ a_scores = << 1, 2, 1, 2, 1, 2 >>
    /\ Len(a_result.optimal_regions) = 2
    /\ a_result.optimal_regions[1].x = 16 /\ a_result.optimal_regions[1].y = 0
    /\ a_result.optimal_regions[2].x = 0 /\ a_result.optimal_regions[2].y = 16

\* C24: select_best_frames reads and scores at most 100 frame positions,
\* evenly spaced from position 0, whatever the frame count of the video.
C24_AtMostHundredSamples ==
    pcA = "selected" =>
        /\ Len(s_sampled) <= 100
        /\ \A k \in 1..Len(s_sampled) :
              /\ s_sampled[k] < s_total_frames
              /\ s_sampled[k] = (k - 1) * (IF Len(s_sampled) > 1 THEN s_sampled[2] ELSE 1)

\* ------------------------------------------------------------------
\* C21, C27, C28: BatchService
\* ------------------------------------------------------------------
\* The jobs of the batch whose processing raises.
RaisingJobs == { j \in 1..Len(batches[1].jobs) : batches[1].jobs[j].raise_at # 0 }

\* C21: when a start_batch call returns, every job of the batch is completed
\* or failed, failed_jobs is the number of jobs that raised, and completed_jobs
\* + failed_jobs = total_jobs.
C21_EveryJobSettled ==
    \A c \in DOMAIN start_pc :
        start_pc[c] = "returned" =>
            /\ \A j \in 1..Len(start_result[c].jobs) :
                  start_result[c].jobs[j].status \in { "completed", "failed" }
            /\ start_result[c].failed_jobs = Cardinality(RaisingJobs)
            /\ start_result[c].completed_jobs + start_result[c].failed_jobs
                  = start_result[c].total_jobs

\* C27: in every state of a batch, completed_jobs + failed_jobs is at most
\* total_jobs and the batch progress is at most 100.
C27_CountersWithinTotal ==
    batches # << >> =>
        /\ batches[1].completed_jobs + batches[1].failed_jobs <= batches[1].total_jobs
        /\ batches[1].progress <= 100

\* C28: once a cancel_batch call has returned True, the status that
\* get_batch_status reports is 'cancelled'.
C28_CancelledStays ==
    cancel_true => get_batch_status(batches[1]).status = "cancelled"

\* ------------------------------------------------------------------
\* C29, C30: pipelines and tasks
\* ------------------------------------------------------------------
\* C29: for the ai_options an embed pipeline derived its parameters from,
\* the extract pipeline derives the same bit_position and channel_mode.
C29_SameAiParams ==
    (embed_params # NoResult /\ extract_params # NoResult) =>
        /\ extract_params.kind = "ok"
        /\ extract_params.bit_position = embed_params.bit_position
        /\ extract_params.channel_mode = embed_params.channel_mode

\* C30: the progress values one run of embed_message_task passes to
\* update_state never decrease, and a run that ends normally has passed 0
\* first and 100 last.
C30_ProgressNonDecreasing ==
    /\ \A k \in 1..(Len(progress_log) - 1) : progress_log[k] <= progress_log[k + 1]
    /\ pcT = "done" => (progress_log[1] = 0 /\ progress_log[Len(progress_log)] = 100000)

====
